---------------------------- MODULE Spec2Model ----------------------------
(***************************************************************************)
(* Cursor traversal engine of cove (src/src/ui/chat/tree/cursor.rs) over   *)
(* the message store it queries.  The store and its Tree snapshots live in *)
(* store.rs, which is not part of the sources at hand; they are modelled   *)
(* from the specification (sections 3 and 4.2).  The vault of              *)
(* src/src/vault.rs hands its work to the store actor (TokioVault of the   *)
(* vault crate, also not part of the sources); the actor is modelled from  *)
(* the specification (sections 4.1 and 5).                                 *)
(***************************************************************************)
EXTENDS Integers, Sequences, FiniteSets, TLC

\* ------------------------------------------------------------------ bounds
\* Message ids are 1..MaxMsgs; a store holds the messages 1..k, k <= MaxMsgs.
MaxMsgs == 4
\* A movement operation issues at most this many store queries; the query
\* that fails (if any) is drawn from 0..MaxQueries, 0 meaning none.
MaxQueries == 4
\* The most messages that arrive while a call is suspended, and the most a
\* store holds that received one of them.
MaxArrivals == 2
MaxAwaitMsgs == 3
\* The stores of the fault-injecting specification hold at most this many.
MaxFaultMsgs == 3
\* coming_from of a virtual cursor is None or an id in 1..MaxComingFrom.
MaxComingFrom == 0
\* The vault accepts at most this many units of work in a behaviour.
MaxUnits == 3
\* The database behind the vault holds at most this many messages.
MaxVaultMsgs == 2
\* At most this many units of work fail in a behaviour.
MaxFailures == 1
\* The stores of the specification of the correction hints hold at most
\* this many messages; the scroll offset stays within MaxScroll of 0 and
\* of the ends of i32 and one scroll call moves it by 1..MaxAmount or by
\* the largest i32.
MaxHintMsgs == 2
MaxScroll == 1
MaxAmount == 1
\* migrate::MIGRATIONS holds this many migrations, each of MaxStmts
\* statements; a behaviour launches the vault at most MaxLaunches times and
\* a launched vault executes at most MaxWork units of work.
MaxMigrations == 2
MaxStmts == 2
MaxLaunches == 3
MaxWork == 2
\* The stores of the stepwise traversal grow to at most this many messages.
MaxStaleMsgs == 4
\* The polling task reads at most MaxEvents terminal events and run_main
\* measures widths (and sends itself a Redraw) at most MaxRedraws times.
MaxEvents == 2
MaxRedraws == 1
\* Room names, typed in the connect editor, have at most MaxNameLen characters.
MaxNameLen == 1

\* Option::None for an id.
NoId == 0

Ids == 1 .. MaxMsgs

Min(S) == CHOOSE x \in S : \A y \in S : x <= y
Max(S) == CHOOSE x \in S : \A y \in S : x >= y

RECURSIVE SortedSeq(_)
SortedSeq(S) == IF S = {} THEN << >>
              ELSE LET m == Min(S) IN << m >> \o SortedSeq(S \ {m})

\* ------------------------------------------------------------------ cursor
\* enum Cursor<I> { Bottom, Msg(I), Editor{coming_from, parent},
\*                  Pseudo{coming_from, parent} }
Bottom == [kind |-> "Bottom", id |-> NoId, coming_from |-> NoId, parent |-> NoId]
Msg(i) == [kind |-> "Msg", id |-> i, coming_from |-> NoId, parent |-> NoId]
Editor(cf, p) == [kind |-> "Editor", id |-> NoId, coming_from |-> cf, parent |-> p]
Pseudo(cf, p) == [kind |-> "Pseudo", id |-> NoId, coming_from |-> cf, parent |-> p]

ComingFroms == {NoId} \cup (1 .. MaxComingFrom)

\* ------------------------------------------------------------------- store
\* A store is [msgs, parent, seen]: the set of stored message ids, the parent
\* of each (NoId for a root) and the ids marked seen.  Roots, children and
\* the chronological order are ordered by id; a reply is newer than the
\* message it replies to.
Forests(n) ==
    UNION { { [msgs |-> 1 .. k, parent |-> p, seen |-> {}] :
                p \in { f \in [1 .. n -> {NoId} \cup (1 .. n)] :
                          \A i \in 1 .. n :
                              IF i <= k THEN f[i] < i ELSE f[i] = NoId } } :
            k \in 0 .. n }

Ok(v) == [err |-> "Ok", val |-> v]
Err(e) == [err |-> e, val |-> NoId]

RECURSIVE RootOf(_, _)
RootOf(s, id) == IF s.parent[id] = NoId THEN id ELSE RootOf(s, s.parent[id])

Roots(s) == {m \in s.msgs : s.parent[m] = NoId}

\* Tree snapshot of one root tree: [root, msgs, parent].
tree(s, id) ==
    IF id \notin s.msgs THEN Err("NotFound")
    ELSE LET r == RootOf(s, id)
             ms == {m \in s.msgs : RootOf(s, m) = r}
         IN Ok([root |-> r, msgs |-> ms,
                parent |-> [m \in ms |-> s.parent[m]]])

\* path(id).first(): the root of the tree containing id.
path(s, id) == IF id \notin s.msgs THEN Err("NotFound") ELSE Ok(RootOf(s, id))

first_root_id(s) == Ok(IF Roots(s) = {} THEN NoId ELSE Min(Roots(s)))
last_root_id(s) == Ok(IF Roots(s) = {} THEN NoId ELSE Max(Roots(s)))
prev_root_id(s, root) ==
    LET c == {r \in Roots(s) : r < root}
    IN Ok(IF c = {} THEN NoId ELSE Max(c))
next_root_id(s, root) ==
    LET c == {r \in Roots(s) : r > root}
    IN Ok(IF c = {} THEN NoId ELSE Min(c))

older_msg_id(s, id) ==
    LET c == {m \in s.msgs : m < id}
    IN Ok(IF c = {} THEN NoId ELSE Max(c))
newer_msg_id(s, id) ==
    LET c == {m \in s.msgs : m > id}
    IN Ok(IF c = {} THEN NoId ELSE Min(c))
newest_msg_id(s) == Ok(IF s.msgs = {} THEN NoId ELSE Max(s.msgs))

Unseen(s) == s.msgs \ s.seen
older_unseen_msg_id(s, id) ==
    LET c == {m \in Unseen(s) : m < id}
    IN Ok(IF c = {} THEN NoId ELSE Max(c))
newer_unseen_msg_id(s, id) ==
    LET c == {m \in Unseen(s) : m > id}
    IN Ok(IF c = {} THEN NoId ELSE Min(c))
newest_unseen_msg_id(s) == Ok(IF Unseen(s) = {} THEN NoId ELSE Max(Unseen(s)))

\* Tree lookups.
tree_root(t) == t.root
tree_parent(t, id) == IF id \in t.msgs THEN t.parent[id] ELSE NoId
tree_children(t, id) ==
    IF id \in t.msgs THEN SortedSeq({m \in t.msgs : t.parent[m] = id}) ELSE << >>
tree_siblings(t, id) ==
    IF tree_parent(t, id) = NoId THEN << >>
    ELSE tree_children(t, tree_parent(t, id))
tree_prev_sibling(t, id) ==
    LET c == {x \in {tree_siblings(t, id)[i] : i \in DOMAIN tree_siblings(t, id)} : x < id}
    IN IF c = {} THEN NoId ELSE Max(c)
tree_next_sibling(t, id) ==
    LET c == {x \in {tree_siblings(t, id)[i] : i \in DOMAIN tree_siblings(t, id)} : x > id}
    IN IF c = {} THEN NoId ELSE Min(c)

\* ------------------------------------------------------------------- vault
\* The store actor is [running, open, queue, submitted, log, inbox,
\* current]: whether it accepts work, whether it holds the connection, the
\* units of work waiting, every unit ever submitted (a unit's ticket is its
\* index there), the units executed with their results, the tickets whose
\* result is ready but not yet taken by the caller, and the units being
\* executed on the connection right now.
NewVault == [running |-> TRUE, open |-> TRUE, queue |-> << >>,
             submitted |-> << >>, log |-> << >>, inbox |-> {}, current |-> {}]

Callers == {"a", "b"}

\* struct GcAction: "ANALYZE; VACUUM;".
GcAction == [kind |-> "gc", arg |-> NoId]
\* The units of work of the forest abstraction that the vault serves.
MarkSeenAction(j) == [kind |-> "mark_seen", arg |-> j]
UnseenQuery == [kind |-> "unseen", arg |-> NoId]

\* Marks the single message j seen.
set_seen(s, j) == [s EXCEPT !.seen = @ \cup ({j} \cap s.msgs)]

\* Marks the messages up to j seen.
mark_seen(s, j) == [s EXCEPT !.seen = @ \cup {m \in s.msgs : m <= j}]

\* Action::run on the connection: the database after it and its result.
run(action, s) ==
    IF action.kind = "mark_seen"
    THEN [store |-> mark_seen(s, action.arg), res |-> {}]
    ELSE IF action.kind = "unseen"
    THEN [store |-> s, res |-> Unseen(s)]
    ELSE [store |-> s, res |-> {}]

\* TokioVault::execute: hands the unit of work to the actor.
execute(vl, c, action) ==
    LET u == [ticket |-> Len(vl.submitted) + 1, caller |-> c, action |-> action]
    IN [vl EXCEPT !.queue = Append(@, u), !.submitted = Append(@, u)]

\* Mutant: close throws away the work still queued.
Mut_close_drops_queue(vl) == [vl EXCEPT !.running = FALSE, !.queue = << >>]

\* TokioVault::stop: no new work is accepted; queued work still runs.
stop(vl) == [vl EXCEPT !.running = FALSE]

close(vl) == stop(vl)

\* Mutant: a unit of work that fails takes the actor down with it.
Mut_finish_failure_stops(vl, u, ok, res) ==
    IF ok
    THEN [vl EXCEPT !.queue = Tail(@),
                    !.log = Append(@, [ticket |-> u.ticket, ok |-> TRUE, res |-> res]),
                    !.inbox = @ \cup {u.ticket}]
    ELSE [vl EXCEPT !.queue = << >>, !.running = FALSE,
                    !.log = Append(@, [ticket |-> u.ticket, ok |-> FALSE, res |-> {}]),
                    !.inbox = @ \cup {u.ticket}]

\* The actor is done with unit u, the head of its queue: the result, or the
\* error, goes to the caller of u.
finish(vl, u, ok, res) ==
    [vl EXCEPT !.queue = Tail(@),
               !.log = Append(@, [ticket |-> u.ticket, ok |-> ok,
                                  res |-> IF ok THEN res ELSE {}]),
               !.inbox = @ \cup {u.ticket}]

\* The actor takes the unit at the head of its queue onto the connection.
begin(vl) == [vl EXCEPT !.queue = Tail(@), !.current = @ \cup {Head(vl.queue)}]

\* The unit u, on the connection, is done: the result, or the error, goes
\* to the caller of u.
complete(vl, u, ok, res) ==
    [vl EXCEPT !.current = @ \ {u},
               !.log = Append(@, [ticket |-> u.ticket, ok |-> ok,
                                  res |-> IF ok THEN res ELSE {}]),
               !.inbox = @ \cup {u.ticket}]

\* Mutant: gc runs its statements at once, beside whatever the actor is
\* executing.
Mut_gc_beside_queue(vl, c) ==
    LET u == [ticket |-> Len(vl.submitted) + 1, caller |-> c, action |-> GcAction]
    IN [vl EXCEPT !.current = @ \cup {u}, !.submitted = Append(@, u)]

\* Mutant: gc puts its unit of work ahead of the work already queued.
Mut_gc_jumps_queue(vl, c) ==
    LET u == [ticket |-> Len(vl.submitted) + 1, caller |-> c, action |-> GcAction]
    IN [vl EXCEPT !.queue = << u >> \o @, !.submitted = Append(@, u)]

gc(vl, c) == execute(vl, c, GcAction)

\* ------------------------------------------------------------------ launch
\* A database is [version, schema]: its migration-version record and the
\* statements committed to it, each << migration, statement >>.
FreshDb == [version |-> 0, schema |-> << >>]

\* migrate::MIGRATIONS: the m-th migration, statement by statement.
Migration(m) == [k \in 1 .. MaxStmts |-> << m, k >>]

RECURSIVE SchemaAt(_)
SchemaAt(v) == IF v = 0 THEN << >> ELSE SchemaAt(v - 1) \o Migration(v)

\* No Vault: what a launch that returned an error, or did not return,
\* leaves in the place of one.
NoVault == [none |-> TRUE]

\* Lines 49-50 of launch_from_connection: the two pragma updates, the
\* (n+1)-th and (n+2)-th fallible steps of the launch; f is the step that
\* fails, 0 if none.
configure(n, f) ==
    IF f \in {n + 1, n + 2} THEN Err("ConnectFault") ELSE Ok(n + 2)

\* launch, up to the call of launch_and_prepare: path.parent().expect(..),
\* which panics on a path without a parent ("/" or ""), then open, locking
\* mode, journal mode and launch_from_connection. A launch that panics
\* does not return.
launch(parent, f) ==
    IF ~parent THEN Err("Panic")
    ELSE IF f \in 1 .. 3 THEN Err("ConnectFault") ELSE configure(3, f)

\* launch_in_memory, up to the call of launch_and_prepare.
launch_in_memory(f) == IF f = 1 THEN Err("ConnectFault") ELSE configure(1, f)

\* Mutant: hands out a Vault whatever launch_and_prepare returned.
Mut_launch_from_connection_any(r, eph) ==
    [err |-> r.err, val |-> [tokio_vault |-> NewVault, ephemeral |-> eph]]

\* Lines 54-58 of launch_from_connection: r is what launch_and_prepare
\* returned.
launch_from_connection(r, eph) ==
    IF r.err # "Ok" THEN [err |-> r.err, val |-> NoVault]
    ELSE [err |-> "Ok", val |-> [tokio_vault |-> r.val, ephemeral |-> eph]]

\* Mutant: counts the migrations from the start of the list at every launch,
\* whatever version the database records.
Mut_next_migration_from_start(b) ==
    IF Len(b.applied) < MaxMigrations THEN Len(b.applied) + 1 ELSE 0

\* The migration launch_and_prepare applies next, 0 if none is pending: the
\* one after the version the database records.
next_migration(b) ==
    IF b.db.version < MaxMigrations THEN b.db.version + 1 ELSE 0

\* ------------------------------------------------------- the store, queried
\* w = [store, failAt, arrivals]: the store when the operation is called, the
\* index (1-based, within the operation) of the store query that fails, 0 if
\* none, and the messages the store receives while the operation is suspended
\* at its awaits: arrivals[j] = [before, parent] is stored after the query
\* numbered before - 1 was answered and before the one numbered `before` is,
\* or before the operation resumes with the last answer.
World(s, f) == [store |-> s, failAt |-> f, arrivals |-> << >>]

\* The store with one more message, the newest, a reply to p (a root if NoId).
Receive(s, p) ==
    LET k == Cardinality(s.msgs) + 1
    IN [s EXCEPT !.msgs = @ \cup {k}, !.parent[k] = p]

\* The store that answers the n-th query of the operation: the arrivals from
\* the j-th on that come before that query have been stored.
RECURSIVE After(_, _, _, _)
After(s, a, j, n) ==
    IF j > Len(a) \/ a[j].before > n THEN s
    ELSE After(Receive(s, a[j].parent), a, j + 1, n)

At(w, n) == After(w.store, w.arrivals, 1, n)

\* The worlds in which one more message arrives than in w, where the
\* operation issues n queries: the message comes after those before it and
\* while the operation is suspended, as a root or a reply to a message
\* stored before it. An operation that issues no query is not suspended.
Later(w, n) ==
    LET k == Cardinality(w.store.msgs) + Len(w.arrivals)
        lo == IF w.arrivals = << >> THEN 1 ELSE w.arrivals[Len(w.arrivals)].before
    IN IF n = 0 THEN {}
       ELSE { [w EXCEPT !.arrivals = Append(@, [before |-> q, parent |-> p])] :
                q \in lo .. n + 1, p \in {NoId} \cup (1 .. k) }

\* Where a call leaves the view and the store: the operation, its f-th
\* store query failing if it issues that many, returns out in the world w,
\* whose arrivals the store holds by then.
Landing(f, w, out) ==
    [cursor |-> out.cursor, folded |-> out.folded,
     correction |-> out.correction, scroll |-> out.scroll,
     result |-> [err |-> out.err, reply |-> out.reply,
                 fault |-> IF f \in 1 .. out.n THEN f ELSE 0],
     store |-> At(w, out.n + 1),
     arrived |-> Len(w.arrivals)]

\* Where a call of an operation may end that is called in the world w, in
\* which it returns out, and in the worlds in which up to m more messages
\* arrive; outs[v] is what it returns in the world v. A message that arrives
\* before the q-th query leaves the answers to the queries before it as they
\* were, so that the operation issues that query, or has returned, as it did
\* without it.
RECURSIVE Runs(_, _, _, _, _)
Runs(outs, f, w, out, m) ==
    {Landing(f, w, out)} \cup
    (IF m = 0 THEN {}
     ELSE UNION { Runs(outs, f, v, outs[v], m - 1) : v \in Later(w, out.n) })

\* The messages a store has room for: one that received a message while a
\* call was suspended holds at most MaxAwaitMsgs.
Room(s) ==
    Max({0, Min({Cardinality(DOMAIN s.parent), MaxAwaitMsgs})
              - Cardinality(s.msgs)})

\* The n-th query of the operation, whose answer on the store is r.
Ask(w, n, r) == IF w.failAt = n THEN Err("StoreFault") ELSE r


\* ------------------------------------------------------- traversal helpers
\* The helpers thread st = [tree, id, n, err, moved]: the Tree in hand, the
\* id being moved (a &mut into the cursor), the number of store queries the
\* operation has issued so far, the error a `?` returned early with ("Ok"
\* if none) and the helper's bool result.
Start(t, i, n) == [tree |-> t, id |-> i, n |-> n, err |-> "Ok", moved |-> FALSE]

find_parent(t, id) ==
    IF tree_parent(t, id) # NoId
    THEN [moved |-> TRUE, id |-> tree_parent(t, id)]
    ELSE [moved |-> FALSE, id |-> id]

\* Mutant: descends into a folded message.
Mut_find_first_child_ignores_fold(fold, t, id) ==
    IF tree_children(t, id) # << >>
    THEN [moved |-> TRUE, id |-> Head(tree_children(t, id))]
    ELSE [moved |-> FALSE, id |-> id]

find_first_child(fold, t, id) ==
    IF id \in fold THEN [moved |-> FALSE, id |-> id]
    ELSE IF tree_children(t, id) # << >>
         THEN [moved |-> TRUE, id |-> Head(tree_children(t, id))]
         ELSE [moved |-> FALSE, id |-> id]

\* Mutant: descends into a folded message.
Mut_find_last_child_ignores_fold(fold, t, id) ==
    IF tree_children(t, id) # << >>
    THEN [moved |-> TRUE,
          id |-> tree_children(t, id)[Len(tree_children(t, id))]]
    ELSE [moved |-> FALSE, id |-> id]

find_last_child(fold, t, id) ==
    IF id \in fold THEN [moved |-> FALSE, id |-> id]
    ELSE IF tree_children(t, id) # << >>
         THEN [moved |-> TRUE,
               id |-> tree_children(t, id)[Len(tree_children(t, id))]]
         ELSE [moved |-> FALSE, id |-> id]

\* while Self::find_last_child(folded, tree, id) {}
RECURSIVE last_child_loop(_, _, _)
last_child_loop(fold, t, id) ==
    LET r == find_last_child(fold, t, id)
    IN IF r.moved THEN last_child_loop(fold, t, r.id) ELSE id

\* Mutant: never crosses to the previous root tree.
Mut_find_prev_sibling_same_tree(w, st) ==
    IF tree_prev_sibling(st.tree, st.id) # NoId
    THEN [st EXCEPT !.id = tree_prev_sibling(st.tree, st.id), !.moved = TRUE]
    ELSE [st EXCEPT !.moved = FALSE]

find_prev_sibling(w, st) ==
    IF tree_prev_sibling(st.tree, st.id) # NoId
    THEN [st EXCEPT !.id = tree_prev_sibling(st.tree, st.id), !.moved = TRUE]
    ELSE IF tree_parent(st.tree, st.id) = NoId
    THEN LET r1 == Ask(w, st.n + 1, prev_root_id(At(w, st.n + 1), tree_root(st.tree)))
         IN IF r1.err # "Ok"
            THEN [st EXCEPT !.n = st.n + 1, !.err = r1.err, !.moved = FALSE]
            ELSE IF r1.val # NoId
            THEN LET r2 == Ask(w, st.n + 2, tree(At(w, st.n + 2), r1.val))
                 IN IF r2.err # "Ok"
                    THEN [st EXCEPT !.n = st.n + 2, !.err = r2.err, !.moved = FALSE]
                    ELSE [st EXCEPT !.n = st.n + 2, !.tree = r2.val,
                                    !.id = r1.val, !.moved = TRUE]
            ELSE [st EXCEPT !.n = st.n + 1, !.moved = FALSE]
    ELSE [st EXCEPT !.moved = FALSE]

\* Mutant: takes the next root's id before that root's tree has arrived.
Mut_find_next_sibling_moves_early(w, st) ==
    IF tree_next_sibling(st.tree, st.id) # NoId
    THEN [st EXCEPT !.id = tree_next_sibling(st.tree, st.id), !.moved = TRUE]
    ELSE IF tree_parent(st.tree, st.id) = NoId
    THEN LET r1 == Ask(w, st.n + 1, next_root_id(At(w, st.n + 1), tree_root(st.tree)))
         IN IF r1.err # "Ok"
            THEN [st EXCEPT !.n = st.n + 1, !.err = r1.err, !.moved = FALSE]
            ELSE IF r1.val # NoId
            THEN LET r2 == Ask(w, st.n + 2, tree(At(w, st.n + 2), r1.val))
                 IN IF r2.err # "Ok"
                    THEN [st EXCEPT !.n = st.n + 2, !.err = r2.err,
                                    !.id = r1.val, !.moved = FALSE]
                    ELSE [st EXCEPT !.n = st.n + 2, !.tree = r2.val,
                                    !.id = r1.val, !.moved = TRUE]
            ELSE [st EXCEPT !.n = st.n + 1, !.moved = FALSE]
    ELSE [st EXCEPT !.moved = FALSE]

\* Mutant: crosses to the next root tree from any level.
Mut_find_next_sibling_any_level(w, st) ==
    IF tree_next_sibling(st.tree, st.id) # NoId
    THEN [st EXCEPT !.id = tree_next_sibling(st.tree, st.id), !.moved = TRUE]
    ELSE IF TRUE
    THEN LET r1 == Ask(w, st.n + 1, next_root_id(At(w, st.n + 1), tree_root(st.tree)))
         IN IF r1.err # "Ok"
            THEN [st EXCEPT !.n = st.n + 1, !.err = r1.err, !.moved = FALSE]
            ELSE IF r1.val # NoId
            THEN LET r2 == Ask(w, st.n + 2, tree(At(w, st.n + 2), r1.val))
                 IN IF r2.err # "Ok"
                    THEN [st EXCEPT !.n = st.n + 2, !.err = r2.err, !.moved = FALSE]
                    ELSE [st EXCEPT !.n = st.n + 2, !.tree = r2.val,
                                    !.id = r1.val, !.moved = TRUE]
            ELSE [st EXCEPT !.n = st.n + 1, !.moved = FALSE]
    ELSE [st EXCEPT !.moved = FALSE]

find_next_sibling(w, st) ==
    IF tree_next_sibling(st.tree, st.id) # NoId
    THEN [st EXCEPT !.id = tree_next_sibling(st.tree, st.id), !.moved = TRUE]
    ELSE IF tree_parent(st.tree, st.id) = NoId
    THEN LET r1 == Ask(w, st.n + 1, next_root_id(At(w, st.n + 1), tree_root(st.tree)))
         IN IF r1.err # "Ok"
            THEN [st EXCEPT !.n = st.n + 1, !.err = r1.err, !.moved = FALSE]
            ELSE IF r1.val # NoId
            THEN LET r2 == Ask(w, st.n + 2, tree(At(w, st.n + 2), r1.val))
                 IN IF r2.err # "Ok"
                    THEN [st EXCEPT !.n = st.n + 2, !.err = r2.err, !.moved = FALSE]
                    ELSE [st EXCEPT !.n = st.n + 2, !.tree = r2.val,
                                    !.id = r1.val, !.moved = TRUE]
            ELSE [st EXCEPT !.n = st.n + 1, !.moved = FALSE]
    ELSE [st EXCEPT !.moved = FALSE]

\* Mutant: stops at the previous sibling instead of its last descendant.
Mut_find_prev_msg_no_descent(w, fold, st) ==
    LET a == find_prev_sibling(w, st)
    IN IF a.err # "Ok" THEN a
       ELSE IF a.moved THEN a
       ELSE LET p == find_parent(a.tree, a.id)
            IN [a EXCEPT !.id = p.id, !.moved = p.moved]

find_prev_msg(w, fold, st) ==
    LET a == find_prev_sibling(w, st)
    IN IF a.err # "Ok" THEN a
       ELSE IF a.moved
       THEN [a EXCEPT !.id = last_child_loop(fold, a.tree, a.id), !.moved = TRUE]
       ELSE LET p == find_parent(a.tree, a.id)
            IN [a EXCEPT !.id = p.id, !.moved = p.moved]

\* Mutant: looks for a next sibling of the parent only, not of the further
\* ancestors.
Mut_parent_sibling_loop_once(w, st, orig) ==
    LET p == find_parent(st.tree, st.id)
    IN IF ~p.moved THEN [st EXCEPT !.id = orig, !.moved = FALSE]
       ELSE LET a == find_next_sibling(w, [st EXCEPT !.id = p.id])
            IN IF a.err # "Ok" THEN [a EXCEPT !.id = orig, !.moved = FALSE]
               ELSE IF a.moved THEN a
               ELSE [a EXCEPT !.id = orig, !.moved = FALSE]

\* The loop of find_next_msg: while find_parent(tree, &mut tmp_id) { ... };
\* st.id is tmp_id, orig the id the caller passed in.
RECURSIVE parent_sibling_loop(_, _, _)
parent_sibling_loop(w, st, orig) ==
    LET p == find_parent(st.tree, st.id)
    IN IF ~p.moved THEN [st EXCEPT !.id = orig, !.moved = FALSE]
       ELSE LET a == find_next_sibling(w, [st EXCEPT !.id = p.id])
            IN IF a.err # "Ok" THEN [a EXCEPT !.id = orig, !.moved = FALSE]
               ELSE IF a.moved THEN a
               ELSE parent_sibling_loop(w, a, orig)

\* Mutant: without a child or a next sibling it steps to the parent itself
\* instead of looking for a next sibling of an ancestor.
Mut_find_next_msg_to_parent(w, fold, st) ==
    LET c == find_first_child(fold, st.tree, st.id)
    IN IF c.moved THEN [st EXCEPT !.id = c.id, !.moved = TRUE]
       ELSE LET a == find_next_sibling(w, st)
            IN IF a.err # "Ok" THEN a
               ELSE IF a.moved THEN a
               ELSE LET p == find_parent(a.tree, a.id)
                    IN [a EXCEPT !.id = p.id, !.moved = p.moved]

find_next_msg(w, fold, st) ==
    LET c == find_first_child(fold, st.tree, st.id)
    IN IF c.moved THEN [st EXCEPT !.id = c.id, !.moved = TRUE]
       ELSE LET a == find_next_sibling(w, st)
            IN IF a.err # "Ok" THEN a
               ELSE IF a.moved THEN a
               ELSE parent_sibling_loop(w, a, a.id)


\* --------------------------------------------------- the public operations
\* v = [cursor, folded, correction, scroll] is the InnerTreeViewState; an
\* operation yields the fields it leaves behind plus what it returned:
\* err ("Ok" or the error), for the reply queries the reply target, and n,
\* the number of store queries it issued.
NoReply == [some |-> FALSE, id |-> NoId]

\* self.correction = Some(Correction::MakeCursorVisible); Ok(())
Done(v, c, n) == [cursor |-> c, folded |-> v.folded,
                  correction |-> "MakeCursorVisible", scroll |-> v.scroll,
                  err |-> "Ok", reply |-> NoReply, n |-> n]
\* An early return by `?`: c is the cursor as the operation left it.
Fail(v, c, e, n) == [cursor |-> c, folded |-> v.folded,
                     correction |-> v.correction, scroll |-> v.scroll,
                     err |-> e, reply |-> NoReply, n |-> n]

\* Mutant: only Bottom, not Pseudo without a parent, resolves to the end of
\* the last root tree.
Mut_move_cursor_up_pseudo_stays(w, v) ==
    LET c == v.cursor IN
    IF c.kind = "Bottom"
    THEN LET r1 == Ask(w, 1, last_root_id(At(w, 1)))
         IN IF r1.err # "Ok" THEN Fail(v, c, r1.err, 1)
            ELSE IF r1.val = NoId THEN Done(v, c, 1)
            ELSE LET r2 == Ask(w, 2, tree(At(w, 2), r1.val))
                 IN IF r2.err # "Ok" THEN Fail(v, c, r2.err, 2)
                    ELSE Done(v, Msg(last_child_loop(v.folded, r2.val, r1.val)), 2)
    ELSE IF c.kind = "Msg"
    THEN LET r1 == Ask(w, 1, path(At(w, 1), c.id))
         IN IF r1.err # "Ok" THEN Fail(v, c, r1.err, 1)
            ELSE LET r2 == Ask(w, 2, tree(At(w, 2), r1.val))
                 IN IF r2.err # "Ok" THEN Fail(v, c, r2.err, 2)
                    ELSE LET st == find_prev_msg(w, v.folded, Start(r2.val, c.id, 2))
                         IN IF st.err # "Ok" THEN Fail(v, Msg(st.id), st.err, st.n)
                            ELSE Done(v, Msg(st.id), st.n)
    ELSE IF c.kind = "Editor" \/ c.parent = NoId THEN Done(v, c, 0)
    ELSE LET r1 == Ask(w, 1, tree(At(w, 1), c.parent))
         IN IF r1.err # "Ok" THEN Fail(v, c, r1.err, 1)
            ELSE Done(v, Msg(last_child_loop(v.folded, r1.val, c.parent)), 1)

move_cursor_up(w, v) ==
    LET c == v.cursor IN
    IF c.kind = "Bottom" \/ (c.kind = "Pseudo" /\ c.parent = NoId)
    THEN LET r1 == Ask(w, 1, last_root_id(At(w, 1)))
         IN IF r1.err # "Ok" THEN Fail(v, c, r1.err, 1)
            ELSE IF r1.val = NoId THEN Done(v, c, 1)
            ELSE LET r2 == Ask(w, 2, tree(At(w, 2), r1.val))
                 IN IF r2.err # "Ok" THEN Fail(v, c, r2.err, 2)
                    ELSE Done(v, Msg(last_child_loop(v.folded, r2.val, r1.val)), 2)
    ELSE IF c.kind = "Msg"
    THEN LET r1 == Ask(w, 1, path(At(w, 1), c.id))
         IN IF r1.err # "Ok" THEN Fail(v, c, r1.err, 1)
            ELSE LET r2 == Ask(w, 2, tree(At(w, 2), r1.val))
                 IN IF r2.err # "Ok" THEN Fail(v, c, r2.err, 2)
                    ELSE LET st == find_prev_msg(w, v.folded, Start(r2.val, c.id, 2))
                         IN IF st.err # "Ok" THEN Fail(v, Msg(st.id), st.err, st.n)
                            ELSE Done(v, Msg(st.id), st.n)
    ELSE IF c.kind = "Editor" THEN Done(v, c, 0)
    ELSE LET r1 == Ask(w, 1, tree(At(w, 1), c.parent))
         IN IF r1.err # "Ok" THEN Fail(v, c, r1.err, 1)
            ELSE Done(v, Msg(last_child_loop(v.folded, r1.val, c.parent)), 1)

\* Mutant: from a Pseudo cursor, looks for the message after the parent
\* itself, not after the last message below it.
Mut_move_cursor_down_from_parent(w, v) ==
    LET c == v.cursor IN
    IF c.kind = "Msg"
    THEN LET r1 == Ask(w, 1, path(At(w, 1), c.id))
         IN IF r1.err # "Ok" THEN Fail(v, c, r1.err, 1)
            ELSE LET r2 == Ask(w, 2, tree(At(w, 2), r1.val))
                 IN IF r2.err # "Ok" THEN Fail(v, c, r2.err, 2)
                    ELSE LET st == find_next_msg(w, v.folded, Start(r2.val, c.id, 2))
                         IN IF st.err # "Ok" THEN Fail(v, Msg(st.id), st.err, st.n)
                            ELSE IF ~st.moved THEN Done(v, Bottom, st.n)
                            ELSE Done(v, Msg(st.id), st.n)
    ELSE IF c.kind = "Pseudo" /\ c.parent = NoId THEN Done(v, Bottom, 0)
    ELSE IF c.kind = "Pseudo"
    THEN LET r1 == Ask(w, 1, tree(At(w, 1), c.parent))
         IN IF r1.err # "Ok" THEN Fail(v, c, r1.err, 1)
            ELSE LET id == c.parent
                     st == find_next_msg(w, v.folded, Start(r1.val, id, 1))
                 IN IF st.err # "Ok" THEN Fail(v, c, st.err, st.n)
                    ELSE IF st.moved THEN Done(v, Msg(st.id), st.n)
                    ELSE Done(v, Bottom, st.n)
    ELSE Done(v, c, 0)

move_cursor_down(w, v) ==
    LET c == v.cursor IN
    IF c.kind = "Msg"
    THEN LET r1 == Ask(w, 1, path(At(w, 1), c.id))
         IN IF r1.err # "Ok" THEN Fail(v, c, r1.err, 1)
            ELSE LET r2 == Ask(w, 2, tree(At(w, 2), r1.val))
                 IN IF r2.err # "Ok" THEN Fail(v, c, r2.err, 2)
                    ELSE LET st == find_next_msg(w, v.folded, Start(r2.val, c.id, 2))
                         IN IF st.err # "Ok" THEN Fail(v, Msg(st.id), st.err, st.n)
                            ELSE IF ~st.moved THEN Done(v, Bottom, st.n)
                            ELSE Done(v, Msg(st.id), st.n)
    ELSE IF c.kind = "Pseudo" /\ c.parent = NoId THEN Done(v, Bottom, 0)
    ELSE IF c.kind = "Pseudo"
    THEN LET r1 == Ask(w, 1, tree(At(w, 1), c.parent))
         IN IF r1.err # "Ok" THEN Fail(v, c, r1.err, 1)
            ELSE LET id == last_child_loop(v.folded, r1.val, c.parent)
                     st == find_next_msg(w, v.folded, Start(r1.val, id, 1))
                 IN IF st.err # "Ok" THEN Fail(v, c, st.err, st.n)
                    ELSE IF st.moved THEN Done(v, Msg(st.id), st.n)
                    ELSE Done(v, Bottom, st.n)
    ELSE Done(v, c, 0)

\* Mutant: from a Pseudo cursor under a folded parent the cursor stays.
Mut_move_cursor_up_sibling_folded(w, v) ==
    LET c == v.cursor IN
    IF c.kind = "Bottom" \/ (c.kind = "Pseudo" /\ c.parent = NoId)
    THEN LET r1 == Ask(w, 1, last_root_id(At(w, 1)))
         IN IF r1.err # "Ok" THEN Fail(v, c, r1.err, 1)
            ELSE IF r1.val = NoId THEN Done(v, c, 1)
            ELSE Done(v, Msg(r1.val), 1)
    ELSE IF c.kind = "Msg"
    THEN LET r1 == Ask(w, 1, path(At(w, 1), c.id))
         IN IF r1.err # "Ok" THEN Fail(v, c, r1.err, 1)
            ELSE LET r2 == Ask(w, 2, tree(At(w, 2), r1.val))
                 IN IF r2.err # "Ok" THEN Fail(v, c, r2.err, 2)
                    ELSE LET st == find_prev_sibling(w, Start(r2.val, c.id, 2))
                         IN IF st.err # "Ok" THEN Fail(v, Msg(st.id), st.err, st.n)
                            ELSE Done(v, Msg(st.id), st.n)
    ELSE IF c.kind = "Editor" THEN Done(v, c, 0)
    ELSE LET r1 == Ask(w, 1, path(At(w, 1), c.parent))
         IN IF r1.err # "Ok" THEN Fail(v, c, r1.err, 1)
            ELSE LET r2 == Ask(w, 2, tree(At(w, 2), r1.val))
                 IN IF r2.err # "Ok" THEN Fail(v, c, r2.err, 2)
                    ELSE IF c.parent \notin v.folded
                            /\ tree_children(r2.val, c.parent) # << >>
                    THEN Done(v, Msg(tree_children(r2.val, c.parent)
                                       [Len(tree_children(r2.val, c.parent))]), 2)
                    ELSE Done(v, c, 2)

move_cursor_up_sibling(w, v) ==
    LET c == v.cursor IN
    IF c.kind = "Bottom" \/ (c.kind = "Pseudo" /\ c.parent = NoId)
    THEN LET r1 == Ask(w, 1, last_root_id(At(w, 1)))
         IN IF r1.err # "Ok" THEN Fail(v, c, r1.err, 1)
            ELSE IF r1.val = NoId THEN Done(v, c, 1)
            ELSE Done(v, Msg(r1.val), 1)
    ELSE IF c.kind = "Msg"
    THEN LET r1 == Ask(w, 1, path(At(w, 1), c.id))
         IN IF r1.err # "Ok" THEN Fail(v, c, r1.err, 1)
            ELSE LET r2 == Ask(w, 2, tree(At(w, 2), r1.val))
                 IN IF r2.err # "Ok" THEN Fail(v, c, r2.err, 2)
                    ELSE LET st == find_prev_sibling(w, Start(r2.val, c.id, 2))
                         IN IF st.err # "Ok" THEN Fail(v, Msg(st.id), st.err, st.n)
                            ELSE Done(v, Msg(st.id), st.n)
    ELSE IF c.kind = "Editor" THEN Done(v, c, 0)
    ELSE LET r1 == Ask(w, 1, path(At(w, 1), c.parent))
         IN IF r1.err # "Ok" THEN Fail(v, c, r1.err, 1)
            ELSE LET r2 == Ask(w, 2, tree(At(w, 2), r1.val))
                 IN IF r2.err # "Ok" THEN Fail(v, c, r2.err, 2)
                    ELSE IF tree_children(r2.val, c.parent) # << >>
                    THEN Done(v, Msg(tree_children(r2.val, c.parent)
                                       [Len(tree_children(r2.val, c.parent))]), 2)
                    ELSE Done(v, c, 2)

move_cursor_down_sibling(w, v) ==
    LET c == v.cursor IN
    IF c.kind = "Msg"
    THEN LET r1 == Ask(w, 1, path(At(w, 1), c.id))
         IN IF r1.err # "Ok" THEN Fail(v, c, r1.err, 1)
            ELSE LET r2 == Ask(w, 2, tree(At(w, 2), r1.val))
                 IN IF r2.err # "Ok" THEN Fail(v, c, r2.err, 2)
                    ELSE LET st == find_next_sibling(w, Start(r2.val, c.id, 2))
                         IN IF st.err # "Ok" THEN Fail(v, Msg(st.id), st.err, st.n)
                            ELSE IF ~st.moved /\ tree_parent(st.tree, st.id) = NoId
                            THEN Done(v, Bottom, st.n)
                            ELSE Done(v, Msg(st.id), st.n)
    ELSE IF c.kind = "Pseudo" /\ c.parent = NoId THEN Done(v, Bottom, 0)
    ELSE Done(v, c, 0)

\* Mutant: a Pseudo cursor is left where it is.
Mut_move_cursor_to_parent_msg_only(w, v) ==
    LET c == v.cursor IN
    IF c.kind = "Msg"
    THEN LET r1 == Ask(w, 1, tree(At(w, 1), c.id))
         IN IF r1.err # "Ok" THEN Fail(v, c, r1.err, 1)
            ELSE Done(v, Msg(find_parent(r1.val, c.id).id), 1)
    ELSE Done(v, c, 0)

move_cursor_to_parent(w, v) ==
    LET c == v.cursor IN
    IF c.kind = "Pseudo" /\ c.parent # NoId THEN Done(v, Msg(c.parent), 0)
    ELSE IF c.kind = "Msg"
    THEN LET r1 == Ask(w, 1, tree(At(w, 1), c.id))
         IN IF r1.err # "Ok" THEN Fail(v, c, r1.err, 1)
            ELSE Done(v, Msg(find_parent(r1.val, c.id).id), 1)
    ELSE Done(v, c, 0)

\* Mutant: goes up one level only.
Mut_move_cursor_to_root_one_step(w, v) ==
    LET c == v.cursor IN
    IF c.kind = "Pseudo" /\ c.parent # NoId
    THEN LET r1 == Ask(w, 1, path(At(w, 1), c.parent))
         IN IF r1.err # "Ok" THEN Fail(v, c, r1.err, 1) ELSE Done(v, Msg(r1.val), 1)
    ELSE IF c.kind = "Msg"
    THEN LET r1 == Ask(w, 1, tree(At(w, 1), c.id))
         IN IF r1.err # "Ok" THEN Fail(v, c, r1.err, 1)
            ELSE Done(v, Msg(find_parent(r1.val, c.id).id), 1)
    ELSE Done(v, c, 0)

move_cursor_to_root(w, v) ==
    LET c == v.cursor IN
    IF c.kind = "Pseudo" /\ c.parent # NoId
    THEN LET r1 == Ask(w, 1, path(At(w, 1), c.parent))
         IN IF r1.err # "Ok" THEN Fail(v, c, r1.err, 1) ELSE Done(v, Msg(r1.val), 1)
    ELSE IF c.kind = "Msg"
    THEN LET r1 == Ask(w, 1, path(At(w, 1), c.id))
         IN IF r1.err # "Ok" THEN Fail(v, c, r1.err, 1) ELSE Done(v, Msg(r1.val), 1)
    ELSE Done(v, c, 0)

\* Mutant: only Bottom, not Pseudo, resolves to the newest message.
Mut_move_cursor_older_bottom_only(w, v) ==
    LET c == v.cursor IN
    IF c.kind = "Msg"
    THEN LET r1 == Ask(w, 1, older_msg_id(At(w, 1), c.id))
         IN IF r1.err # "Ok" THEN Fail(v, c, r1.err, 1)
            ELSE IF r1.val # NoId THEN Done(v, Msg(r1.val), 1) ELSE Done(v, c, 1)
    ELSE IF c.kind = "Bottom"
    THEN LET r1 == Ask(w, 1, newest_msg_id(At(w, 1)))
         IN IF r1.err # "Ok" THEN Fail(v, c, r1.err, 1)
            ELSE IF r1.val # NoId THEN Done(v, Msg(r1.val), 1) ELSE Done(v, c, 1)
    ELSE Done(v, c, 0)

move_cursor_older(w, v) ==
    LET c == v.cursor IN
    IF c.kind = "Msg"
    THEN LET r1 == Ask(w, 1, older_msg_id(At(w, 1), c.id))
         IN IF r1.err # "Ok" THEN Fail(v, c, r1.err, 1)
            ELSE IF r1.val # NoId THEN Done(v, Msg(r1.val), 1) ELSE Done(v, c, 1)
    ELSE IF c.kind \in {"Bottom", "Pseudo"}
    THEN LET r1 == Ask(w, 1, newest_msg_id(At(w, 1)))
         IN IF r1.err # "Ok" THEN Fail(v, c, r1.err, 1)
            ELSE IF r1.val # NoId THEN Done(v, Msg(r1.val), 1) ELSE Done(v, c, 1)
    ELSE Done(v, c, 0)

\* Mutant: stays on the newest message instead of moving to Bottom.
Mut_move_cursor_newer_stays(w, v) ==
    LET c == v.cursor IN
    IF c.kind = "Msg"
    THEN LET r1 == Ask(w, 1, newer_msg_id(At(w, 1), c.id))
         IN IF r1.err # "Ok" THEN Fail(v, c, r1.err, 1)
            ELSE IF r1.val # NoId THEN Done(v, Msg(r1.val), 1) ELSE Done(v, c, 1)
    ELSE IF c.kind = "Pseudo" THEN Done(v, Bottom, 0)
    ELSE Done(v, c, 0)

move_cursor_newer(w, v) ==
    LET c == v.cursor IN
    IF c.kind = "Msg"
    THEN LET r1 == Ask(w, 1, newer_msg_id(At(w, 1), c.id))
         IN IF r1.err # "Ok" THEN Fail(v, c, r1.err, 1)
            ELSE IF r1.val # NoId THEN Done(v, Msg(r1.val), 1) ELSE Done(v, Bottom, 1)
    ELSE IF c.kind = "Pseudo" THEN Done(v, Bottom, 0)
    ELSE Done(v, c, 0)


\* Mutant: steps to the older message whether it is seen or not.
Mut_move_cursor_older_unseen_any(w, v) ==
    LET c == v.cursor IN
    IF c.kind = "Msg"
    THEN LET r1 == Ask(w, 1, older_msg_id(At(w, 1), c.id))
         IN IF r1.err # "Ok" THEN Fail(v, c, r1.err, 1)
            ELSE IF r1.val # NoId THEN Done(v, Msg(r1.val), 1) ELSE Done(v, c, 1)
    ELSE IF c.kind \in {"Bottom", "Pseudo"}
    THEN LET r1 == Ask(w, 1, newest_unseen_msg_id(At(w, 1)))
         IN IF r1.err # "Ok" THEN Fail(v, c, r1.err, 1)
            ELSE IF r1.val # NoId THEN Done(v, Msg(r1.val), 1) ELSE Done(v, c, 1)
    ELSE Done(v, c, 0)

move_cursor_older_unseen(w, v) ==
    LET c == v.cursor IN
    IF c.kind = "Msg"
    THEN LET r1 == Ask(w, 1, older_unseen_msg_id(At(w, 1), c.id))
         IN IF r1.err # "Ok" THEN Fail(v, c, r1.err, 1)
            ELSE IF r1.val # NoId THEN Done(v, Msg(r1.val), 1) ELSE Done(v, c, 1)
    ELSE IF c.kind \in {"Bottom", "Pseudo"}
    THEN LET r1 == Ask(w, 1, newest_unseen_msg_id(At(w, 1)))
         IN IF r1.err # "Ok" THEN Fail(v, c, r1.err, 1)
            ELSE IF r1.val # NoId THEN Done(v, Msg(r1.val), 1) ELSE Done(v, c, 1)
    ELSE Done(v, c, 0)

move_cursor_newer_unseen(w, v) ==
    LET c == v.cursor IN
    IF c.kind = "Msg"
    THEN LET r1 == Ask(w, 1, newer_unseen_msg_id(At(w, 1), c.id))
         IN IF r1.err # "Ok" THEN Fail(v, c, r1.err, 1)
            ELSE IF r1.val # NoId THEN Done(v, Msg(r1.val), 1) ELSE Done(v, Bottom, 1)
    ELSE IF c.kind = "Pseudo" THEN Done(v, Bottom, 0)
    ELSE Done(v, c, 0)

\* Sets the correction only when a first root exists.
move_cursor_to_top(w, v) ==
    LET r1 == Ask(w, 1, first_root_id(At(w, 1)))
    IN IF r1.err # "Ok" THEN Fail(v, v.cursor, r1.err, 1)
       ELSE IF r1.val # NoId THEN Done(v, Msg(r1.val), 1)
       ELSE [Done(v, v.cursor, 1) EXCEPT !.correction = v.correction]

move_cursor_to_bottom(v) == Done(v, Bottom, 0)

\* scroll and amount are i32. In a build with overflow checks (checks) `+=`
\* and `-=` panic when the result leaves the range of i32, before anything
\* is assigned; in a build without them the result wraps around.
I32Max == 2147483647
I32Min == -I32Max - 1
add_overflows(a, b) == IF b >= 0 THEN a > I32Max - b ELSE a < I32Min - b
sub_overflows(a, b) == IF b >= 0 THEN a < I32Min + b ELSE a > I32Max + b
wrapping_add(a, b) ==
    IF ~add_overflows(a, b) THEN a + b
    ELSE IF b >= 0 THEN I32Min + ((b - (I32Max - a)) - 1)
    ELSE I32Max - (((I32Min - b) - 1) - a)
wrapping_sub(a, b) ==
    IF ~sub_overflows(a, b) THEN a - b
    ELSE IF b >= 0 THEN I32Max - (((I32Min + b) - 1) - a)
    ELSE I32Min + ((a - 1) - (I32Max + b))

\* self.scroll += amount
scroll_up(v, amount, checks) ==
    IF checks /\ add_overflows(v.scroll, amount) THEN Fail(v, v.cursor, "Panic", 0)
    ELSE [Done(v, v.cursor, 0) EXCEPT !.scroll = wrapping_add(v.scroll, amount),
                                      !.correction = "MoveCursorToVisibleArea"]

\* Mutant: scrolls the way scroll_up does.
Mut_scroll_down_adds(v, amount, checks) ==
    IF checks /\ add_overflows(v.scroll, amount) THEN Fail(v, v.cursor, "Panic", 0)
    ELSE [Done(v, v.cursor, 0) EXCEPT !.scroll = wrapping_add(v.scroll, amount),
                                      !.correction = "MoveCursorToVisibleArea"]

\* self.scroll -= amount
scroll_down(v, amount, checks) ==
    IF checks /\ sub_overflows(v.scroll, amount) THEN Fail(v, v.cursor, "Panic", 0)
    ELSE [Done(v, v.cursor, 0) EXCEPT !.scroll = wrapping_sub(v.scroll, amount),
                                      !.correction = "MoveCursorToVisibleArea"]

center_cursor(v) == [Done(v, v.cursor, 0) EXCEPT !.correction = "CenterCursor"]

\* Result<Option<Option<Id>>>: None is NoReply, Some(None) is SomeNone,
\* Some(Some(t)) is SomeSome(t).  A &self query: the view is left as it is.
SomeNone == [some |-> TRUE, id |-> NoId]
SomeSome(t) == [some |-> TRUE, id |-> t]
Reply(v, r, n) == [Fail(v, v.cursor, "Ok", n) EXCEPT !.reply = r]

\* Mutant: looks at the previous sibling instead of the next one.
Mut_parent_for_normal_reply_prev(w, v) ==
    LET c == v.cursor IN
    IF c.kind = "Bottom" THEN Reply(v, SomeNone, 0)
    ELSE IF c.kind = "Msg"
    THEN LET r1 == Ask(w, 1, path(At(w, 1), c.id))
         IN IF r1.err # "Ok" THEN Fail(v, c, r1.err, 1)
            ELSE LET r2 == Ask(w, 2, tree(At(w, 2), r1.val))
                 IN IF r2.err # "Ok" THEN Fail(v, c, r2.err, 2)
                    ELSE IF tree_prev_sibling(r2.val, c.id) # NoId
                    THEN Reply(v, SomeSome(c.id), 2)
                    ELSE IF tree_parent(r2.val, c.id) # NoId
                    THEN Reply(v, SomeSome(tree_parent(r2.val, c.id)), 2)
                    ELSE Reply(v, SomeSome(c.id), 2)
    ELSE Reply(v, NoReply, 0)

\* Mutant: a Pseudo cursor with a parent offers that parent as the target.
Mut_parent_for_normal_reply_pseudo(w, v) ==
    LET c == v.cursor IN
    IF c.kind = "Bottom" THEN Reply(v, SomeNone, 0)
    ELSE IF c.kind = "Msg"
    THEN LET r1 == Ask(w, 1, path(At(w, 1), c.id))
         IN IF r1.err # "Ok" THEN Fail(v, c, r1.err, 1)
            ELSE LET r2 == Ask(w, 2, tree(At(w, 2), r1.val))
                 IN IF r2.err # "Ok" THEN Fail(v, c, r2.err, 2)
                    ELSE IF tree_next_sibling(r2.val, c.id) # NoId
                    THEN Reply(v, SomeSome(c.id), 2)
                    ELSE IF tree_parent(r2.val, c.id) # NoId
                    THEN Reply(v, SomeSome(tree_parent(r2.val, c.id)), 2)
                    ELSE Reply(v, SomeSome(c.id), 2)
    ELSE IF c.kind = "Pseudo" /\ c.parent # NoId
    THEN Reply(v, SomeSome(c.parent), 0)
    ELSE Reply(v, NoReply, 0)

parent_for_normal_reply(w, v) ==
    LET c == v.cursor IN
    IF c.kind = "Bottom" THEN Reply(v, SomeNone, 0)
    ELSE IF c.kind = "Msg"
    THEN LET r1 == Ask(w, 1, path(At(w, 1), c.id))
         IN IF r1.err # "Ok" THEN Fail(v, c, r1.err, 1)
            ELSE LET r2 == Ask(w, 2, tree(At(w, 2), r1.val))
                 IN IF r2.err # "Ok" THEN Fail(v, c, r2.err, 2)
                    ELSE IF tree_next_sibling(r2.val, c.id) # NoId
                    THEN Reply(v, SomeSome(c.id), 2)
                    ELSE IF tree_parent(r2.val, c.id) # NoId
                    THEN Reply(v, SomeSome(tree_parent(r2.val, c.id)), 2)
                    ELSE Reply(v, SomeSome(c.id), 2)
    ELSE Reply(v, NoReply, 0)

\* Mutant: the same choice as the normal reply.
Mut_parent_for_alternate_reply_same(w, v) ==
    LET c == v.cursor IN
    IF c.kind = "Bottom" THEN Reply(v, SomeNone, 0)
    ELSE IF c.kind = "Msg"
    THEN LET r1 == Ask(w, 1, path(At(w, 1), c.id))
         IN IF r1.err # "Ok" THEN Fail(v, c, r1.err, 1)
            ELSE LET r2 == Ask(w, 2, tree(At(w, 2), r1.val))
                 IN IF r2.err # "Ok" THEN Fail(v, c, r2.err, 2)
                    ELSE IF tree_next_sibling(r2.val, c.id) # NoId
                    THEN Reply(v, SomeSome(c.id), 2)
                    ELSE IF tree_parent(r2.val, c.id) # NoId
                    THEN Reply(v, SomeSome(tree_parent(r2.val, c.id)), 2)
                    ELSE Reply(v, SomeSome(c.id), 2)
    ELSE Reply(v, NoReply, 0)

parent_for_alternate_reply(w, v) ==
    LET c == v.cursor IN
    IF c.kind = "Bottom" THEN Reply(v, SomeNone, 0)
    ELSE IF c.kind = "Msg"
    THEN LET r1 == Ask(w, 1, path(At(w, 1), c.id))
         IN IF r1.err # "Ok" THEN Fail(v, c, r1.err, 1)
            ELSE LET r2 == Ask(w, 2, tree(At(w, 2), r1.val))
                 IN IF r2.err # "Ok" THEN Fail(v, c, r2.err, 2)
                    ELSE IF tree_next_sibling(r2.val, c.id) = NoId
                    THEN Reply(v, SomeSome(c.id), 2)
                    ELSE IF tree_parent(r2.val, c.id) # NoId
                    THEN Reply(v, SomeSome(tree_parent(r2.val, c.id)), 2)
                    ELSE Reply(v, SomeSome(c.id), 2)
    ELSE Reply(v, NoReply, 0)


\* ------------------------------------------------------------------- state
VARIABLES
    store,       \* the message store the view reads
    cursor,      \* InnerTreeViewState.cursor
    folded,      \* InnerTreeViewState.folded
    correction,  \* InnerTreeViewState.correction ("None" when resolved)
    scroll,      \* InnerTreeViewState.scroll
    lastOp,      \* history: the operation called last ("init" before any)
    before,      \* history: the cursor before that call
    result,      \* history: what that call returned, [err, reply], and
                 \* fault, the index of its store query that failed (0: none)
    trail,       \* history: the cursors of a run of one repeated operation
    vault,       \* the store actor behind the vault
    boot,        \* the launch of the vault and the database it opens
    ui,          \* Ui::run: its two tasks, the event channel and the lock
    task,        \* a traversal in progress, query by query
    rooms,       \* ui::Rooms, the room list and the rooms it has opened
    arrived      \* history: the messages the store received during calls

vars == << store, cursor, folded, correction, scroll, lastOp, before, result,
          trail, vault, boot, ui, task, rooms, arrived >>

\* What the view and the store actor leave alone.
Aside == << boot, ui, task, rooms, arrived >>

\* No launch, no Ui::run, no stepwise traversal and no room list is under
\* way, and no message has arrived during a call.
NothingAside ==
    /\ boot = "none" /\ ui = "none" /\ task = "none" /\ rooms = "none"
    /\ arrived = 0

\* Every call so far ran on a store that no message reached meanwhile.
Quiet == arrived = 0

\* The view and the history of its calls: everything but the store and the
\* vault.
ViewVars == << cursor, folded, correction, scroll, lastOp, before, result, trail >>

View == [cursor |-> cursor, folded |-> folded,
         correction |-> correction, scroll |-> scroll]

Faults == 0 .. MaxQueries

CursorsOver(n) ==
    {Bottom} \cup {Msg(i) : i \in 1 .. n}
    \cup {Editor(cf, p) : cf \in ComingFroms, p \in {NoId} \cup (1 .. n)}
    \cup {Pseudo(cf, p) : cf \in ComingFroms, p \in {NoId} \cup (1 .. n)}

\* The view after an operation that left `out` when its f-th store query
\* failed (if it issued that many), and the record of the call.
Record(name, f, out) ==
    /\ result.err # "Panic"
    /\ cursor' = out.cursor
    /\ folded' = out.folded
    /\ correction' = out.correction
    /\ scroll' = out.scroll
    /\ lastOp' = name
    /\ before' = cursor
    /\ result' = [err |-> out.err, reply |-> out.reply,
                  fault |-> IF f \in 1 .. out.n THEN f ELSE 0]

\* A call during which no message reaches the store.
Apply(name, f, out) ==
    /\ Record(name, f, out)
    /\ UNCHANGED << store, vault, Aside >>

\* The messages that may arrive during the next call: a behaviour is
\* followed through MaxArrivals arrivals in all, during whichever calls.
Window == Min({MaxArrivals - arrived, Room(store)})

\* An operation that awaits its store queries has returned: l is where it
\* left the view and the store.
Resume(name, l) ==
    /\ result.err # "Panic"
    /\ cursor' = l.cursor
    /\ folded' = l.folded
    /\ correction' = l.correction
    /\ scroll' = l.scroll
    /\ lastOp' = name
    /\ before' = cursor
    /\ result' = l.result
    /\ store' = l.store
    /\ arrived' = arrived + l.arrived
    /\ UNCHANGED << vault, boot, ui, task, rooms >>

\* The worlds a call may run in, its f-th store query failing.
Calls(f) == [store : {store}, failAt : {f}, arrivals : Seq([before : Nat, parent : Nat])]

\* The call returns what it does on the store as it is (quiet), or messages
\* arrive while it is suspended.
Suspend(name, f, outs, w, quiet) ==
    \/ Apply(name, f, quiet)
    \/ /\ Window > 0
       /\ \E l \in UNION { Runs(outs, f, v, outs[v], Window - 1) :
                              v \in Later(w, quiet.n) } :
             Resume(name, l)

\* A call of the operation of that name, its f-th store query failing;
\* outs[w] is what the operation returns in the world w of Calls(f).
Call(name, f, outs) ==
    Suspend(name, f, outs, World(store, f), outs[World(store, f)])

\* A freshly constructed view (cursor, fold set drawn) over a store of at
\* most n messages.
InitView(n) ==
    /\ store \in Forests(n)
    /\ folded \in SUBSET store.msgs
    /\ cursor \in CursorsOver(n)
    /\ correction = "None"
    /\ scroll = 0
    /\ lastOp = "init"
    /\ before = cursor
    /\ result = [err |-> "Ok", reply |-> NoReply, fault |-> 0]
    /\ vault = NewVault
    /\ NothingAside

\* ------------------------------------------- Spec: the structural movements
Init == InitView(MaxMsgs) /\ trail = << >>

MoveCursorUp ==
    Call("move_cursor_up", 0,
         [w \in Calls(0) |-> move_cursor_up(w, View)])
    /\ UNCHANGED trail

MoveCursorDown ==
    Call("move_cursor_down", 0,
         [w \in Calls(0) |-> move_cursor_down(w, View)])
    /\ UNCHANGED trail

MoveCursorUpSibling ==
    Call("move_cursor_up_sibling", 0,
         [w \in Calls(0) |-> move_cursor_up_sibling(w, View)])
    /\ UNCHANGED trail

MoveCursorDownSibling ==
    Call("move_cursor_down_sibling", 0,
         [w \in Calls(0) |-> move_cursor_down_sibling(w, View)])
    /\ UNCHANGED trail

MoveCursorToParent ==
    Call("move_cursor_to_parent", 0,
         [w \in Calls(0) |-> move_cursor_to_parent(w, View)])
    /\ UNCHANGED trail

MoveCursorToRoot ==
    Call("move_cursor_to_root", 0,
         [w \in Calls(0) |-> move_cursor_to_root(w, View)])
    /\ UNCHANGED trail

MoveCursorToTop ==
    Call("move_cursor_to_top", 0,
         [w \in Calls(0) |-> move_cursor_to_top(w, View)])
    /\ UNCHANGED trail

MoveCursorToBottom ==
    Apply("move_cursor_to_bottom", 0, move_cursor_to_bottom(View))
    /\ UNCHANGED trail

ParentForNormalReply ==
    Call("parent_for_normal_reply", 0,
         [w \in Calls(0) |-> parent_for_normal_reply(w, View)])
    /\ UNCHANGED trail

ParentForAlternateReply ==
    Call("parent_for_alternate_reply", 0,
         [w \in Calls(0) |-> parent_for_alternate_reply(w, View)])
    /\ UNCHANGED trail

Next ==
    \/ MoveCursorUp
    \/ MoveCursorDown
    \/ MoveCursorUpSibling
    \/ MoveCursorDownSibling
    \/ MoveCursorToParent
    \/ MoveCursorToRoot
    \/ MoveCursorToTop
    \/ MoveCursorToBottom
    \/ ParentForNormalReply
    \/ ParentForAlternateReply

Spec == Init /\ [][Next]_vars


\* ------------------------- SpecRun: one movement repeated, without faults
\* trail holds the cursor the run started from and the cursor after each
\* call; a run is at most MaxMsgs + 1 calls of the same operation.
InitRun == InitView(MaxMsgs) /\ trail = << cursor >>

RunOf(name) == lastOp \in {"init", name} /\ Len(trail) <= MaxMsgs + 1

RunUp ==
    /\ RunOf("move_cursor_up")
    /\ Call("move_cursor_up", 0,
            [w \in Calls(0) |-> move_cursor_up(w, View)])
    /\ trail' = Append(trail, cursor')

RunDown ==
    /\ RunOf("move_cursor_down")
    /\ Call("move_cursor_down", 0,
            [w \in Calls(0) |-> move_cursor_down(w, View)])
    /\ trail' = Append(trail, cursor')

RunNewer ==
    /\ RunOf("move_cursor_newer")
    /\ Call("move_cursor_newer", 0,
            [w \in Calls(0) |-> move_cursor_newer(w, View)])
    /\ trail' = Append(trail, cursor')

RunToParent ==
    /\ RunOf("move_cursor_to_parent")
    /\ Call("move_cursor_to_parent", 0,
            [w \in Calls(0) |-> move_cursor_to_parent(w, View)])
    /\ trail' = Append(trail, cursor')

RunToRoot ==
    /\ RunOf("move_cursor_to_root")
    /\ Call("move_cursor_to_root", 0,
            [w \in Calls(0) |-> move_cursor_to_root(w, View)])
    /\ trail' = Append(trail, cursor')

NextRun == RunUp \/ RunDown \/ RunNewer \/ RunToParent \/ RunToRoot

SpecRun == InitRun /\ [][NextRun]_vars

\* ------------------ SpecTrip: move_cursor_down, then at once move_cursor_up
\* trail holds the cursor before, between and after the two calls; the store
\* is written only by the messages that arrive while a call is suspended.
InitTrip == InitView(MaxMsgs) /\ trail = << cursor >>

TripDown ==
    /\ lastOp = "init"
    /\ Call("move_cursor_down", 0,
            [w \in Calls(0) |-> move_cursor_down(w, View)])
    /\ trail' = Append(trail, cursor')

TripUp ==
    /\ lastOp = "move_cursor_down"
    /\ Call("move_cursor_up", 0,
            [w \in Calls(0) |-> move_cursor_up(w, View)])
    /\ trail' = Append(trail, cursor')

NextTrip == TripDown \/ TripUp

SpecTrip == InitTrip /\ [][NextTrip]_vars

\* ------------------- SpecFault: every movement, any one store query failing
\* The seen marks form a watermark: the messages up to some id are seen;
\* marking is a write to the store from outside the view.
InitFault ==
    /\ InitView(MaxFaultMsgs)
    /\ store.seen = {}
    /\ trail = << >>

\* A behaviour constructs a view, marks messages seen or not, and makes one
\* call; InitView draws every cursor and fold set that earlier calls could
\* have left.
FirstCall == lastOp = "init"

MarkSeen ==
    /\ \E j \in store.msgs \ store.seen : store' = mark_seen(store, j)
    /\ UNCHANGED << cursor, folded, correction, scroll, lastOp, before, result,
                    trail, vault, Aside >>

FaultyUp ==
    /\ FirstCall
    /\ \E f \in Faults :
        Call("move_cursor_up", f,
             [w \in Calls(f) |-> move_cursor_up(w, View)])
        /\ UNCHANGED trail
FaultyDown ==
    /\ FirstCall
    /\ \E f \in Faults :
        Call("move_cursor_down", f,
             [w \in Calls(f) |-> move_cursor_down(w, View)])
        /\ UNCHANGED trail
FaultyUpSibling ==
    /\ FirstCall
    /\ \E f \in Faults :
        Call("move_cursor_up_sibling", f,
             [w \in Calls(f) |-> move_cursor_up_sibling(w, View)])
        /\ UNCHANGED trail
FaultyDownSibling ==
    /\ FirstCall
    /\ \E f \in Faults :
        Call("move_cursor_down_sibling", f,
             [w \in Calls(f) |-> move_cursor_down_sibling(w, View)])
        /\ UNCHANGED trail
FaultyToParent ==
    /\ FirstCall
    /\ \E f \in Faults :
        Call("move_cursor_to_parent", f,
             [w \in Calls(f) |-> move_cursor_to_parent(w, View)])
        /\ UNCHANGED trail
FaultyToRoot ==
    /\ FirstCall
    /\ \E f \in Faults :
        Call("move_cursor_to_root", f,
             [w \in Calls(f) |-> move_cursor_to_root(w, View)])
        /\ UNCHANGED trail
FaultyOlder ==
    /\ FirstCall
    /\ \E f \in Faults :
        Call("move_cursor_older", f,
             [w \in Calls(f) |-> move_cursor_older(w, View)])
        /\ UNCHANGED trail
FaultyNewer ==
    /\ FirstCall
    /\ \E f \in Faults :
        Call("move_cursor_newer", f,
             [w \in Calls(f) |-> move_cursor_newer(w, View)])
        /\ UNCHANGED trail
FaultyOlderUnseen ==
    /\ FirstCall
    /\ \E f \in Faults :
        Call("move_cursor_older_unseen", f,
             [w \in Calls(f) |-> move_cursor_older_unseen(w, View)])
        /\ UNCHANGED trail
FaultyNewerUnseen ==
    /\ FirstCall
    /\ \E f \in Faults :
        Call("move_cursor_newer_unseen", f,
             [w \in Calls(f) |-> move_cursor_newer_unseen(w, View)])
        /\ UNCHANGED trail
FaultyToTop ==
    /\ FirstCall
    /\ \E f \in Faults :
        Call("move_cursor_to_top", f,
             [w \in Calls(f) |-> move_cursor_to_top(w, View)])
        /\ UNCHANGED trail

NextFault ==
    \/ MarkSeen
    \/ FaultyUp
    \/ FaultyDown
    \/ FaultyUpSibling
    \/ FaultyDownSibling
    \/ FaultyToParent
    \/ FaultyToRoot
    \/ FaultyOlder
    \/ FaultyNewer
    \/ FaultyOlderUnseen
    \/ FaultyNewerUnseen
    \/ FaultyToTop

SpecFault == InitFault /\ [][NextFault]_vars


\* ------------- SpecHint: any sequence of the public operations of the view
InitHint == InitView(MaxHintMsgs) /\ trail = << >>

HintUp ==
    Call("move_cursor_up", 0,
         [w \in Calls(0) |-> move_cursor_up(w, View)])
    /\ UNCHANGED trail
HintDown ==
    Call("move_cursor_down", 0,
         [w \in Calls(0) |-> move_cursor_down(w, View)])
    /\ UNCHANGED trail
HintUpSibling ==
    Call("move_cursor_up_sibling", 0,
         [w \in Calls(0) |-> move_cursor_up_sibling(w, View)])
    /\ UNCHANGED trail
HintDownSibling ==
    Call("move_cursor_down_sibling", 0,
         [w \in Calls(0) |-> move_cursor_down_sibling(w, View)])
    /\ UNCHANGED trail
HintToParent ==
    Call("move_cursor_to_parent", 0,
         [w \in Calls(0) |-> move_cursor_to_parent(w, View)])
    /\ UNCHANGED trail
HintToRoot ==
    Call("move_cursor_to_root", 0,
         [w \in Calls(0) |-> move_cursor_to_root(w, View)])
    /\ UNCHANGED trail
HintOlder ==
    Call("move_cursor_older", 0,
         [w \in Calls(0) |-> move_cursor_older(w, View)])
    /\ UNCHANGED trail
HintNewer ==
    Call("move_cursor_newer", 0,
         [w \in Calls(0) |-> move_cursor_newer(w, View)])
    /\ UNCHANGED trail
HintOlderUnseen ==
    Call("move_cursor_older_unseen", 0,
         [w \in Calls(0) |-> move_cursor_older_unseen(w, View)])
    /\ UNCHANGED trail
HintNewerUnseen ==
    Call("move_cursor_newer_unseen", 0,
         [w \in Calls(0) |-> move_cursor_newer_unseen(w, View)])
    /\ UNCHANGED trail
HintToTop ==
    Call("move_cursor_to_top", 0,
         [w \in Calls(0) |-> move_cursor_to_top(w, View)])
    /\ UNCHANGED trail
HintToBottom ==
    Apply("move_cursor_to_bottom", 0, move_cursor_to_bottom(View))
    /\ UNCHANGED trail
\* The amounts scrolled by, the largest i32 among them, and the offsets
\* the model lets the view reach: those within MaxScroll of 0 and of the
\* two ends of i32. The build has overflow checks or has none.
Amounts == (1 .. MaxAmount) \cup {I32Max}
NearEnds(x) ==
    \/ -MaxScroll <= x /\ x <= MaxScroll
    \/ x >= I32Max - MaxScroll
    \/ x <= I32Min + MaxScroll
HintScrollUp ==
    \E out \in { scroll_up(View, amount, checks) :
                    amount \in Amounts, checks \in BOOLEAN } :
        /\ NearEnds(out.scroll)
        /\ Apply("scroll_up", 0, out)
        /\ UNCHANGED trail
HintScrollDown ==
    \E out \in { scroll_down(View, amount, checks) :
                    amount \in Amounts, checks \in BOOLEAN } :
        /\ NearEnds(out.scroll)
        /\ Apply("scroll_down", 0, out)
        /\ UNCHANGED trail
HintCenter ==
    Apply("center_cursor", 0, center_cursor(View))
    /\ UNCHANGED trail

NextHint ==
    \/ HintUp
    \/ HintDown
    \/ HintUpSibling
    \/ HintDownSibling
    \/ HintToParent
    \/ HintToRoot
    \/ HintOlder
    \/ HintNewer
    \/ HintOlderUnseen
    \/ HintNewerUnseen
    \/ HintToTop
    \/ HintToBottom
    \/ HintScrollUp
    \/ HintScrollDown
    \/ HintCenter

SpecHint == InitHint /\ [][NextHint]_vars

\* ------ SpecFrame: the operations of the view and its two reply queries
FrameReplyNormal ==
    Call("parent_for_normal_reply", 0,
         [w \in Calls(0) |-> parent_for_normal_reply(w, View)])
    /\ UNCHANGED trail
FrameReplyAlternate ==
    Call("parent_for_alternate_reply", 0,
         [w \in Calls(0) |-> parent_for_alternate_reply(w, View)])
    /\ UNCHANGED trail

NextFrame ==
    \/ NextHint
    \/ FrameReplyNormal
    \/ FrameReplyAlternate

SpecFrame == InitHint /\ [][NextFrame]_vars

\* ------------- SpecUnseen: one unseen step over any marking of the messages
\* Messages are marked seen one by one, in any order, before the call.
InitUnseen == InitView(MaxFaultMsgs) /\ trail = << >>

SetSeen ==
    /\ FirstCall
    /\ \E j \in store.msgs \ store.seen : store' = set_seen(store, j)
    /\ UNCHANGED << ViewVars, vault, Aside >>

UnseenOlder ==
    /\ FirstCall
    /\ Call("move_cursor_older_unseen", 0,
            [w \in Calls(0) |-> move_cursor_older_unseen(w, View)])
    /\ UNCHANGED trail

UnseenNewer ==
    /\ FirstCall
    /\ Call("move_cursor_newer_unseen", 0,
            [w \in Calls(0) |-> move_cursor_newer_unseen(w, View)])
    /\ UNCHANGED trail

NextUnseen == SetSeen \/ UnseenOlder \/ UnseenNewer

SpecUnseen == InitUnseen /\ [][NextUnseen]_vars

\* --------- SpecReply: the two reply queries on one view, any query failing
\* trail holds what the two queries returned.  The queries read the cursor
\* only, so the view starts with nothing folded; the virtual cursors carry
\* any coming_from.
VirtualCursors(n) ==
    {Editor(cf, p) : cf \in {NoId} \cup (1 .. n), p \in {NoId} \cup (1 .. n)}
    \cup {Pseudo(cf, p) : cf \in {NoId} \cup (1 .. n), p \in {NoId} \cup (1 .. n)}

InitReply ==
    /\ store \in Forests(MaxMsgs)
    /\ folded = {}
    /\ cursor \in {Bottom} \cup {Msg(i) : i \in 1 .. MaxMsgs} \cup VirtualCursors(MaxMsgs)
    /\ correction = "None"
    /\ scroll = 0
    /\ lastOp = "init"
    /\ before = cursor
    /\ result = [err |-> "Ok", reply |-> NoReply, fault |-> 0]
    /\ trail = << >>
    /\ vault = NewVault
    /\ NothingAside

ReplyNormal ==
    /\ lastOp = "init"
    /\ \E f \in Faults :
        Call("parent_for_normal_reply", f,
             [w \in Calls(f) |-> parent_for_normal_reply(w, View)])
    /\ trail' = Append(trail, result')

ReplyAlternate ==
    /\ lastOp = "parent_for_normal_reply"
    /\ \E f \in Faults :
        Call("parent_for_alternate_reply", f,
             [w \in Calls(f) |-> parent_for_alternate_reply(w, View)])
    /\ trail' = Append(trail, result')

NextReply == ReplyNormal \/ ReplyAlternate

SpecReply == InitReply /\ [][NextReply]_vars

\* ------------------------- SpecVault: callers and the store actor at work
\* The database is the store, here one of top-level messages only (the
\* actor does not look at the threading); the view stays as constructed.

InitVault ==
    /\ store \in {s \in Forests(MaxVaultMsgs) : Roots(s) = s.msgs}
    /\ folded = {}
    /\ cursor = Bottom
    /\ correction = "None"
    /\ scroll = 0
    /\ lastOp = "init"
    /\ before = cursor
    /\ result = [err |-> "Ok", reply |-> NoReply, fault |-> 0]
    /\ trail = << >>
    /\ vault = NewVault
    /\ NothingAside

\* A caller may submit while the vault is live.
Live == vault.running /\ Len(vault.submitted) < MaxUnits

CallMarkSeen ==
    /\ Live
    /\ \E c \in Callers, j \in store.msgs :
           vault' = execute(vault, c, MarkSeenAction(j))
    /\ UNCHANGED << store, ViewVars, Aside >>

CallUnseen ==
    /\ Live
    /\ \E c \in Callers : vault' = execute(vault, c, UnseenQuery)
    /\ UNCHANGED << store, ViewVars, Aside >>

CallGc ==
    /\ Live
    /\ \E c \in Callers : vault' = gc(vault, c)
    /\ UNCHANGED << store, ViewVars, Aside >>

CallClose ==
    /\ vault.running
    /\ vault' = close(vault)
    /\ UNCHANGED << store, ViewVars, Aside >>

\* The units of work that have failed so far.
Failures == Cardinality({i \in 1 .. Len(vault.log) : ~vault.log[i].ok})

\* The actor takes the next unit of work and runs it on the connection; a
\* unit that fails leaves the database as it was.
ActorRun ==
    /\ vault.open
    /\ vault.queue # << >>
    /\ \E ok \in {TRUE} \cup {FALSE : x \in {1 .. MaxFailures} \ {1 .. Failures}} :
           LET u == Head(vault.queue)
               r == run(u.action, store)
           IN /\ store' = IF ok THEN r.store ELSE store
              /\ vault' = finish(vault, u, ok, r.res)
    /\ UNCHANGED << ViewVars, Aside >>

\* Stopped and out of work, the actor releases the connection.
ActorStop ==
    /\ vault.open
    /\ ~vault.running
    /\ vault.queue = << >>
    /\ vault.current = {}
    /\ vault' = [vault EXCEPT !.open = FALSE]
    /\ UNCHANGED << store, ViewVars, Aside >>

\* A caller takes a result that is ready, whenever it gets to it.
TakeResult ==
    /\ \E t \in vault.inbox : vault' = [vault EXCEPT !.inbox = @ \ {t}]
    /\ UNCHANGED << store, ViewVars, Aside >>

NextVault ==
    \/ CallMarkSeen
    \/ CallUnseen
    \/ CallGc
    \/ CallClose
    \/ ActorRun
    \/ ActorStop
    \/ TakeResult

SpecVault == InitVault /\ [][NextVault]_vars

\* ------- SpecSlot: the store actor, a unit of work taking time to execute
\* The callers and the shutdown are those of SpecVault; the execution of a
\* unit is two steps, its start and its end.

\* The actor, idle, takes the next unit of work onto the connection.
ActorBegin ==
    /\ vault.open
    /\ vault.queue # << >>
    /\ vault.current = {}
    /\ vault' = begin(vault)
    /\ UNCHANGED << store, ViewVars, Aside >>

\* A unit of work on the connection ends; a unit that fails leaves the
\* database as it was.
ActorEnd ==
    /\ \E u \in vault.current :
        \E ok \in {TRUE} \cup {FALSE : x \in {1 .. MaxFailures} \ {1 .. Failures}} :
           LET r == run(u.action, store)
           IN /\ store' = IF ok THEN r.store ELSE store
              /\ vault' = complete(vault, u, ok, r.res)
    /\ UNCHANGED << ViewVars, Aside >>

NextSlot ==
    \/ CallMarkSeen
    \/ CallUnseen
    \/ CallGc
    \/ CallClose
    \/ ActorBegin
    \/ ActorEnd
    \/ ActorStop

SpecSlot == InitVault /\ [][NextSlot]_vars

\* ---- SpecStale: a traversal query by query, messages arriving meanwhile
\* task is [op, pc, id, tmp, ctx, arg, tree, fresh, stale, outdated, wrote,
\* out, err]: the operation under way, the store query it awaits ("idle"
\* before the call, "done" after it), the id in the cursor, tmp_id of
\* find_next_msg, whether find_next_sibling was called on the id itself
\* ("direct") or from the ancestor loop ("loop"), the argument of the
\* awaited query, the Tree in hand, whether no store query has been awaited
\* since that Tree was fetched, and the history: whether a lookup was made
\* in a Tree that was not fresh, whether such a Tree was no longer the
\* store's, whether a message arrived during the call, and what the call
\* left in the cursor and returned.
NoTree == [root |-> NoId, msgs |-> {}, parent |-> << >>]

IdleTask == [op |-> "none", pc |-> "idle", id |-> NoId, tmp |-> NoId,
             ctx |-> "direct", arg |-> NoId, tree |-> NoTree, fresh |-> TRUE,
             stale |-> FALSE, outdated |-> FALSE, wrote |-> FALSE,
             out |-> Bottom, err |-> "Ok"]

\* A lookup in the Tree in hand, the store being s by now.
Look(t, s) ==
    [t EXCEPT !.stale = @ \/ ~t.fresh,
              !.outdated = @ \/ (~t.fresh /\ tree(s, t.tree.root).val # t.tree)]

\* The call returns Ok with the cursor c.
Finished(t, c) == [t EXCEPT !.pc = "done", !.out = c, !.err = "Ok"]

\* A store query failed: the call returns early, the cursor as it was.
Failed(t, e) == [t EXCEPT !.pc = "done", !.out = Msg(t.id), !.err = e]

RECURSIVE Sib(_, _, _, _), NoSib(_, _, _), Loop(_, _, _)

\* find_next_sibling on x, up to its first store query.
Sib(t, s, x, ctx) ==
    LET t1 == Look(t, s)
    IN IF tree_next_sibling(t.tree, x) # NoId
       THEN Finished(t1, Msg(tree_next_sibling(t.tree, x)))
       ELSE IF tree_parent(t.tree, x) = NoId
       THEN [t1 EXCEPT !.pc = "next_root_id", !.ctx = ctx, !.tmp = x,
                       !.arg = tree_root(t.tree)]
       ELSE NoSib([t1 EXCEPT !.ctx = ctx, !.tmp = x], s, x)

\* find_next_sibling on x has returned false: move_cursor_down_sibling
\* looks at the parent of the message, find_next_msg goes on to the
\* ancestors.
NoSib(t, s, x) ==
    IF t.op = "move_cursor_down_sibling"
    THEN IF tree_parent(t.tree, t.id) = NoId
         THEN Finished(Look(t, s), Bottom)
         ELSE Finished(Look(t, s), Msg(t.id))
    ELSE Loop(t, s, x)

\* while Self::find_parent(tree, &mut tmp_id) { find_next_sibling .. }
Loop(t, s, x) ==
    LET p == find_parent(t.tree, x)
    IN IF ~p.moved THEN Finished(Look(t, s), Bottom)
       ELSE Sib(Look(t, s), s, p.id, "loop")

InitStale ==
    /\ store \in Forests(MaxStaleMsgs)
    /\ folded \in SUBSET store.msgs
    /\ cursor \in {Msg(i) : i \in store.msgs}
    /\ correction = "None"
    /\ scroll = 0
    /\ lastOp = "init"
    /\ before = cursor
    /\ result = [err |-> "Ok", reply |-> NoReply, fault |-> 0]
    /\ trail = << >>
    /\ vault = NewVault
    /\ boot = "none"
    /\ ui = "none"
    /\ task = IdleTask
    /\ rooms = "none"
    /\ arrived = 0

\* The task moves on to t; a call that is done has written the cursor and,
\* unless it failed, the correction.
Settle(t) ==
    /\ task' = t
    /\ IF t.pc = "done"
       THEN /\ cursor' = t.out
            /\ correction' = IF t.err = "Ok" THEN "MakeCursorVisible"
                              ELSE correction
            /\ result' = [err |-> t.err, reply |-> NoReply, fault |-> 0]
       ELSE UNCHANGED << cursor, correction, result >>
    /\ UNCHANGED << store, folded, scroll, lastOp, before, trail, vault, boot, ui,
                    rooms, arrived >>

\* move_cursor_down is called on a Msg cursor and awaits store.path(msg).
StartDown ==
    /\ task.pc = "idle"
    /\ cursor.kind = "Msg"
    /\ task' = [task EXCEPT !.op = "move_cursor_down", !.pc = "path",
                            !.id = cursor.id, !.arg = cursor.id]
    /\ lastOp' = "move_cursor_down"
    /\ before' = cursor
    /\ UNCHANGED << store, cursor, folded, correction, scroll, result, trail,
                    vault, boot, ui, rooms, arrived >>

\* move_cursor_down_sibling is called on a Msg cursor and awaits
\* store.path(msg).
StartDownSibling ==
    /\ task.pc = "idle"
    /\ cursor.kind = "Msg"
    /\ task' = [task EXCEPT !.op = "move_cursor_down_sibling", !.pc = "path",
                            !.id = cursor.id, !.arg = cursor.id]
    /\ lastOp' = "move_cursor_down_sibling"
    /\ before' = cursor
    /\ UNCHANGED << store, cursor, folded, correction, scroll, result, trail,
                    vault, boot, ui, rooms, arrived >>

\* store.path(msg) is answered; the call awaits store.tree(path.first()).
AnswerPath ==
    /\ task.pc = "path"
    /\ LET r == path(store, task.arg)
       IN Settle(IF r.err # "Ok" THEN Failed(task, r.err)
                 ELSE [task EXCEPT !.pc = "tree", !.arg = r.val, !.fresh = FALSE])

\* store.tree(path.first()) is answered; the call runs on to its next
\* store query, or to its end.
AnswerTree ==
    /\ task.pc = "tree"
    /\ LET r == tree(store, task.arg)
           t == [task EXCEPT !.tree = r.val, !.fresh = TRUE]
           c == find_first_child(folded, r.val, task.id)
       IN Settle(IF r.err # "Ok" THEN Failed(task, r.err)
                 ELSE IF task.op = "move_cursor_down" /\ c.moved
                 THEN Finished(Look(t, store), Msg(c.id))
                 ELSE Sib(t, store, task.id, "direct"))

\* store.next_root_id(tree.root()) is answered.
AnswerNextRoot ==
    /\ task.pc = "next_root_id"
    /\ LET r == next_root_id(store, task.arg)
           t == [task EXCEPT !.fresh = FALSE]
       IN Settle(IF r.err # "Ok" THEN Failed(task, r.err)
                 ELSE IF r.val # NoId
                 THEN [t EXCEPT !.pc = "next_tree", !.arg = r.val]
                 ELSE NoSib(t, store, task.tmp))

\* store.tree(&next_root_id) is answered.
AnswerNextTree ==
    /\ task.pc = "next_tree"
    /\ LET r == tree(store, task.arg)
       IN Settle(IF r.err # "Ok" THEN Failed(task, r.err)
                 ELSE Finished([task EXCEPT !.tree = r.val, !.fresh = TRUE],
                               Msg(task.arg)))

\* A message arrives from the network while the call awaits the store.
Arrive ==
    /\ task.pc \notin {"idle", "done"}
    /\ Cardinality(store.msgs) < MaxStaleMsgs
    /\ \E p \in {NoId} \cup store.msgs : store' = Receive(store, p)
    /\ task' = [task EXCEPT !.wrote = TRUE]
    /\ arrived' = arrived + 1
    /\ UNCHANGED << ViewVars, vault, boot, ui, rooms >>

NextStale ==
    \/ StartDown
    \/ StartDownSibling
    \/ AnswerPath
    \/ AnswerTree
    \/ AnswerNextRoot
    \/ AnswerNextTree
    \/ Arrive

SpecStale == InitStale /\ [][NextStale]_vars

\* ----------------- SpecUi: Ui::run, its main loop and its polling task
\* ui is [run, main, poll, out, strong, rx, chan, join, sent, redraws, res]:
\*   run     "awaited", "done" (run has returned res) or "dropped" (its
\*           future is no longer awaited);
\*   main    where run_main stands: "render", "recv", or "exited";
\*   poll    where poll_crossterm_events stands: "upgrade" (at the head of
\*           its loop), "poll" (in the loop body, holding the upgraded Arc
\*           and the guard) or "stopped", and out, how it stopped: "Ok",
\*           "Err", or "Panic" (the task ended abnormally);
\*   strong  whether run_main still holds crossterm_lock, the Arc;
\*   rx      whether event_rx is alive; chan, the events in the channel;
\*   join    "pending", or "disabled" once select! has seen the JoinHandle
\*           yield a value its pattern Ok(e) does not match;
\*   sent    how many terminal events the polling task has sent, redraws
\*           how many Redraw events run_main has sent.
NewUi == [run |-> "awaited", main |-> "render", poll |-> "upgrade",
          out |-> "none", strong |-> TRUE, rx |-> TRUE, chan |-> << >>,
          join |-> "pending", sent |-> 0, redraws |-> 0, res |-> "none"]

\* Mutant: the polling task holds the lock by an Arc of its own, so the
\* upgrade never fails.
Mut_upgrade_always(u) == TRUE

\* lock.upgrade() is Some: a strong reference to the lock exists.
upgrade(u) == u.strong

\* The pattern Ok(e) of the select! branch of the JoinHandle matches what
\* the handle yields: Ok(e) when the task returned e, Err(JoinError) when
\* it ended abnormally.
matches_ok(out) == out \in {"Ok", "Err"}

\* handle_key_event / handle_mouse_event over the batch of events: Stop on
\* the key Q.
stops(chan) == \E i \in 1 .. Len(chan) : chan[i] = "Q"

\* run_main returns r: its future completes, dropping crossterm_lock and
\* event_rx, and select! makes it the result of run.
main_exit(u, r) ==
    [u EXCEPT !.main = "exited", !.strong = FALSE, !.rx = FALSE,
              !.chan = << >>, !.run = "done", !.res = r]

\* The polling task returns r.
poll_return(u, r) == [u EXCEPT !.poll = "stopped", !.out = r]

InitUi ==
    /\ store \in Forests(0)
    /\ folded = {}
    /\ cursor = Bottom
    /\ correction = "None"
    /\ scroll = 0
    /\ lastOp = "init"
    /\ before = cursor
    /\ result = [err |-> "Ok", reply |-> NoReply, fault |-> 0]
    /\ trail = << >>
    /\ vault = NewVault
    /\ boot = "none"
    /\ task = "none"
    /\ rooms = "none"
    /\ arrived = 0
    /\ ui = NewUi

UiVars == << store, ViewVars, vault, boot, task, rooms, arrived >>

\* run_main, steps 1 and 2: render and present, which may fail, then
\* measure the widths under the lock if required and send Redraw.
MainRender ==
    /\ ui.run = "awaited"
    /\ ui.main = "render"
    /\ \/ ui' = main_exit(ui, "Err")
       \/ ui' = [ui EXCEPT !.main = "recv"]
       \/ /\ ui.poll # "poll"
          /\ ui.redraws < MaxRedraws
          /\ ui' = [ui EXCEPT !.main = "recv", !.redraws = @ + 1,
                              !.chan = Append(@, "Redraw")]
    /\ UNCHANGED UiVars

\* run_main, step 3: an event has arrived; the batch is handled.
MainRecv ==
    /\ ui.run = "awaited"
    /\ ui.main = "recv"
    /\ ui.chan # << >>
    /\ ui' = IF stops(ui.chan) THEN main_exit(ui, "Ok")
             ELSE [ui EXCEPT !.main = "render", !.chan = << >>]
    /\ UNCHANGED UiVars

\* The future of run is dropped: run_main goes with it, and with it
\* crossterm_lock and event_rx.
RunDropped ==
    /\ ui.run = "awaited"
    /\ ui' = [ui EXCEPT !.run = "dropped", !.main = "exited",
                        !.strong = FALSE, !.rx = FALSE, !.chan = << >>]
    /\ UNCHANGED UiVars

\* select! polls the JoinHandle of the polling task, which has stopped.
SelectJoin ==
    /\ ui.run = "awaited"
    /\ ui.poll = "stopped"
    /\ ui.join = "pending"
    /\ ui' = IF matches_ok(ui.out)
             THEN [ui EXCEPT !.run = "done", !.res = ui.out, !.main = "exited",
                             !.strong = FALSE, !.rx = FALSE, !.chan = << >>]
             ELSE [ui EXCEPT !.join = "disabled"]
    /\ UNCHANGED UiVars

\* while let Some(lock) = lock.upgrade() { let _guard = lock.lock(); ..
PollUpgrade ==
    /\ ui.poll = "upgrade"
    /\ ui' = IF upgrade(ui) THEN [ui EXCEPT !.poll = "poll"]
             ELSE poll_return(ui, "Ok")
    /\ UNCHANGED UiVars

\* The loop body: poll, which fails, times out or reports an event; read,
\* which fails or yields the event; send, which fails when event_rx is
\* gone.
PollBody ==
    /\ ui.poll = "poll"
    /\ \/ ui' = poll_return(ui, "Err")
       \/ ui' = [ui EXCEPT !.poll = "upgrade"]
       \/ /\ ui.sent < MaxEvents
          /\ \E e \in {"Q", "key"} :
                ui' = IF ui.rx
                      THEN [ui EXCEPT !.poll = "upgrade", !.sent = @ + 1,
                                      !.chan = Append(@, e)]
                      ELSE poll_return(ui, "Err")
    /\ UNCHANGED UiVars

\* The polling task ends abnormally.
PollPanic ==
    /\ ui.poll # "stopped"
    /\ ui' = poll_return(ui, "Panic")
    /\ UNCHANGED UiVars

NextUi ==
    \/ MainRender
    \/ MainRecv
    \/ RunDropped
    \/ SelectJoin
    \/ PollUpgrade
    \/ PollBody
    \/ PollPanic

SpecUi == InitUi /\ [][NextUi]_vars

\* The blocking thread of the polling task runs on, and poll returns after
\* POLL_DURATION at the latest.
SpecUiFair == SpecUi /\ WF_vars(PollUpgrade) /\ WF_vars(PollBody)

\* ------------------- SpecLaunch: launches of the vault, one after another
\* boot is [pc, ephemeral, db, tx, from, applied, prepared, handle, err,
\* launches, ran]: where the launch stands ("idle": none under way and no
\* Vault returned, "migrating", "live", "closing": Vault::close has asked
\* the actor to stop and waits for it, "closed": Vault::close has returned,
\* "panicked": launch panicked), the kind of store, the database (the
\* file, or the in-memory one of this launch), the statements of the open
\* transaction, the version the launch found, the migrations it committed,
\* whether it ran the preparation, the Vault it returned (NoVault if none),
\* the error it returned ("Ok" if none), the launches so far and the units
\* of work executed through the Vault of this launch.
InitLaunch ==
    /\ store \in Forests(0)
    /\ folded = {}
    /\ cursor = Bottom
    /\ correction = "None"
    /\ scroll = 0
    /\ lastOp = "init"
    /\ before = cursor
    /\ result = [err |-> "Ok", reply |-> NoReply, fault |-> 0]
    /\ trail = << >>
    /\ vault = NewVault
    /\ ui = "none"
    /\ task = "none"
    /\ rooms = "none"
    /\ arrived = 0
    /\ \E eph \in BOOLEAN, v \in 0 .. MaxMigrations :
          /\ eph => v = 0
          /\ boot = [pc |-> "idle", ephemeral |-> eph,
                     db |-> [version |-> v, schema |-> SchemaAt(v)],
                     tx |-> << >>, from |-> v, applied |-> << >>,
                     prepared |-> FALSE, handle |-> NoVault, err |-> "Ok",
                     launches |-> 0, ran |-> 0]

LaunchVars == << store, ViewVars, vault, ui, task, rooms, arrived >>

\* launch_and_prepare has returned r: launch_from_connection returns.
Returned(b, r) ==
    LET l == launch_from_connection(r, b.ephemeral)
    IN [b EXCEPT !.pc = IF l.val = NoVault THEN "idle" ELSE "live",
                 !.tx = << >>, !.handle = l.val, !.err = l.err]

\* A process starts and calls launch, on a path with or without a parent,
\* or launch_in_memory, up to launch_and_prepare; the f-th fallible step
\* fails. A launch that panics returns nothing and opens no database. One
\* Vault is followed at a time: the next launch is one made when the last
\* has failed or panicked, or when the close of its Vault has returned.
LaunchOpen ==
    /\ boot.pc \in {"idle", "closed", "panicked"}
    /\ boot.launches < MaxLaunches
    /\ \E parent \in BOOLEAN, f \in 0 .. 5 :
          LET c == IF boot.ephemeral THEN launch_in_memory(f)
                   ELSE launch(parent, f)
              db == IF boot.ephemeral /\ c.err # "Panic" THEN FreshDb
                    ELSE boot.db
              b == [boot EXCEPT !.launches = @ + 1, !.db = db, !.tx = << >>,
                                !.from = db.version, !.applied = << >>,
                                !.prepared = FALSE, !.ran = 0,
                                !.handle = NoVault,
                                !.err = IF c.err = "Panic" THEN "Ok" ELSE c.err]
          IN boot' = IF c.err = "Panic" THEN [b EXCEPT !.pc = "panicked"]
                     ELSE IF c.err # "Ok" THEN [b EXCEPT !.pc = "idle"]
                     ELSE [b EXCEPT !.pc = "migrating"]
    /\ UNCHANGED LaunchVars

\* One statement of the pending migration, inside its transaction.
MigrateStmt ==
    /\ boot.pc = "migrating"
    /\ next_migration(boot) # 0
    /\ Len(boot.tx) < MaxStmts
    /\ boot' = [boot EXCEPT
                  !.tx = Append(@, Migration(next_migration(boot))[Len(@) + 1])]
    /\ UNCHANGED LaunchVars

\* The transaction of the pending migration commits.
MigrateCommit ==
    /\ boot.pc = "migrating"
    /\ next_migration(boot) # 0
    /\ Len(boot.tx) = MaxStmts
    /\ boot' = [boot EXCEPT
                  !.db = [version |-> next_migration(boot),
                          schema |-> boot.db.schema \o boot.tx],
                  !.tx = << >>,
                  !.applied = Append(@, next_migration(boot))]
    /\ UNCHANGED LaunchVars

\* A statement of the pending migration, or its commit, fails: the
\* transaction is rolled back and the launch returns the error.
MigrateFail ==
    /\ boot.pc = "migrating"
    /\ next_migration(boot) # 0
    /\ boot' = Returned(boot, Err("MigrationFault"))
    /\ UNCHANGED LaunchVars

\* No migration is pending: the preparation runs, the actor starts and the
\* launch returns; or the preparation fails and the launch returns the
\* error.
Prepare ==
    /\ boot.pc = "migrating"
    /\ next_migration(boot) = 0
    /\ boot.tx = << >>
    /\ \E ok \in BOOLEAN :
          boot' = IF ok
                  THEN Returned([boot EXCEPT !.prepared = TRUE], Ok(NewVault))
                  ELSE Returned(boot, Err("PrepareFault"))
    /\ UNCHANGED LaunchVars

\* The launch has returned a Vault that has not been closed: a holder of
\* it, or of a clone of it (Vault is Clone, euph() hands clones out), calls
\* Vault::gc, which hands a unit of work to the actor. The actor takes no
\* work once a stop has been requested.
Submit ==
    /\ boot.handle # NoVault
    /\ boot.handle.tokio_vault.running
    /\ Len(boot.handle.tokio_vault.submitted) < MaxWork
    /\ \E c \in Callers :
          boot' = [boot EXCEPT !.handle.tokio_vault = gc(@, c)]
    /\ UNCHANGED LaunchVars

\* The actor executes the unit of work at the head of its queue on the
\* connection it holds, before or after a stop has been requested.
Work ==
    /\ boot.handle # NoVault
    /\ boot.handle.tokio_vault.open
    /\ boot.handle.tokio_vault.queue # << >>
    /\ boot' = [boot EXCEPT
                  !.ran = @ + 1,
                  !.handle.tokio_vault =
                      finish(@, Head(@.queue), TRUE,
                             run(Head(@.queue).action, store).res)]
    /\ UNCHANGED LaunchVars

\* Vault::close, up to its await: the stop is requested of the actor. The
\* actor still holds the connection and the work queued before the stop.
Shutdown ==
    /\ boot.pc = "live"
    /\ boot' = [boot EXCEPT !.pc = "closing",
                            !.handle.tokio_vault = close(@)]
    /\ UNCHANGED LaunchVars

\* Stopped and out of work, the actor lets go of the connection, and the
\* await of Vault::close returns. The Vault stays with the caller.
Release ==
    /\ boot.pc = "closing"
    /\ boot.handle.tokio_vault.open
    /\ ~boot.handle.tokio_vault.running
    /\ boot.handle.tokio_vault.queue = << >>
    /\ boot.handle.tokio_vault.current = {}
    /\ boot' = [boot EXCEPT !.pc = "closed",
                            !.handle.tokio_vault.open = FALSE]
    /\ UNCHANGED LaunchVars

NextLaunch ==
    \/ LaunchOpen
    \/ MigrateStmt
    \/ MigrateCommit
    \/ MigrateFail
    \/ Prepare
    \/ Submit
    \/ Work
    \/ Shutdown
    \/ Release

SpecLaunch == InitLaunch /\ [][NextLaunch]_vars

\* ------------- SpecRooms: the room list, its keys and the rooms it opens
\* rooms is [state, list, euph_rooms, db, bindings]:
\*   state       ShowList, ShowRoom(name) or Connect(ed), ed the editor: its
\*               text and idx, the number of letters before its cursor;
\*   list        the ListState: its cursor (NoName for None) and the rows it
\*               was last rendered with;
\*   euph_rooms  the HashMap, a function from the names it holds to what
\*               each EuphRoom holds: "None" (no connection), "running" or
\*               "stopped" (a connection that has ended);
\*   db          the rooms the vault knows, vault.euph_rooms();
\*   bindings    what list_key_bindings listed when last called ("none"
\*               before any call).
\* A name is a string of letters, here a sequence of them. Letters are the
\* letter keys pressed, Typed those pressed in the connect editor.
Letters == {"c", "C", "d", "D"}
Typed == {"c", "d"}
Texts == UNION {[1 .. n -> Typed] : n \in 0 .. MaxNameLen}
NoName == << >>
RoomNames == Texts \ {NoName}

\* The keys pressed. A letter is KeyCode::Char, which the room list reads as
\* a command and the connect editor as a character.
Keys == Letters \cup {"Up", "Down", "Home", "End", "Ctrl+y", "Ctrl+e", "Enter",
                      "Esc", "Left", "Right", "Backspace", "Delete", "F1"}

\* The byte of a letter and the order of Strings, which sort_unstable uses.
Byte(ch) == CASE ch = "C" -> 67 [] ch = "D" -> 68 [] ch = "c" -> 99 [] OTHER -> 100

RECURSIVE Before(_, _)
Before(x, y) ==
    IF y = << >> THEN FALSE
    ELSE IF x = << >> THEN TRUE
    ELSE IF Head(x) # Head(y) THEN Byte(Head(x)) < Byte(Head(y))
    ELSE Before(Tail(x), Tail(y))

RECURSIVE Sorted(_)
Sorted(S) ==
    IF S = {} THEN << >>
    ELSE LET m == CHOOSE x \in S : \A y \in S \ {x} : Before(x, y)
         IN << m >> \o Sorted(S \ {m})

\* EditorState: new is empty; insert_char puts the letter at the cursor and
\* steps over it; backspace deletes the letter before the cursor, delete
\* the one after it; the cursor moves left and right within the text.
Without(text, i) == SubSeq(text, 1, i - 1) \o SubSeq(text, i + 1, Len(text))
EditorState == [text |-> NoName, idx |-> 0]
insert_char(ed, ch) ==
    [text |-> SubSeq(ed.text, 1, ed.idx) \o << ch >>
                \o SubSeq(ed.text, ed.idx + 1, Len(ed.text)),
     idx |-> ed.idx + 1]
move_cursor_left(ed) == [ed EXCEPT !.idx = Max({@ - 1, 0})]
move_cursor_right(ed) == [ed EXCEPT !.idx = Min({@ + 1, Len(ed.text)})]
backspace(ed) ==
    IF ed.idx = 0 THEN ed
    ELSE [text |-> Without(ed.text, ed.idx), idx |-> ed.idx - 1]
delete(ed) ==
    IF ed.idx = Len(ed.text) THEN ed
    ELSE [ed EXCEPT !.text = Without(@, ed.idx + 1)]

ShowList == [kind |-> "ShowList", name |-> NoName, ed |-> EditorState]
ShowRoom(name) == [kind |-> "ShowRoom", name |-> name, ed |-> EditorState]
Connect(ed) == [kind |-> "Connect", name |-> NoName, ed |-> ed]

\* EuphRoom: new holds no connection, connect starts one unless one is held,
\* disconnect drops it, stopped is true unless a connection is running and
\* retain drops a connection that has ended.
EuphRoom == "None"
connect(r) == IF r = "None" THEN "running" ELSE r
disconnect(r) == "None"
stopped(r) == r # "running"
retain(r) == IF r = "stopped" THEN "None" ELSE r

\* ListState: the cursor stays on its row while the rows rendered still
\* hold it, else moves to the row now at its place or the last before it;
\* without a cursor the first row is taken.
IndexOf(rows, x) == CHOOSE i \in 1 .. Len(rows) : rows[i] = x
OnRow(l) == l.cursor # NoName /\ \E i \in 1 .. Len(l.rows) : l.rows[i] = l.cursor
ListState == [cursor |-> NoName, rows |-> << >>]
render(l, rows) ==
    [cursor |-> IF rows = << >> THEN NoName
                ELSE IF \E i \in 1 .. Len(rows) : rows[i] = l.cursor
                     THEN l.cursor
                ELSE IF OnRow(l)
                     THEN rows[Min({IndexOf(l.rows, l.cursor), Len(rows)})]
                ELSE rows[1],
     rows |-> rows]
list_move_cursor_up(l) ==
    IF OnRow(l) THEN [l EXCEPT !.cursor = l.rows[Max({IndexOf(l.rows, @) - 1, 1})]]
    ELSE render(l, l.rows)
list_move_cursor_down(l) ==
    IF OnRow(l)
    THEN [l EXCEPT !.cursor = l.rows[Min({IndexOf(l.rows, @) + 1,
                                             Len(l.rows)})]]
    ELSE render(l, l.rows)
list_move_cursor_to_top(l) ==
    IF l.rows = << >> THEN l ELSE [l EXCEPT !.cursor = l.rows[1]]
list_move_cursor_to_bottom(l) ==
    IF l.rows = << >> THEN l ELSE [l EXCEPT !.cursor = l.rows[Len(l.rows)]]

\* Rooms::new over a vault that knows the rooms db.
NewRooms(db) == [state |-> ShowList, list |-> ListState,
                 euph_rooms |-> << >>, db |-> db, bindings |-> "none"]

\* What the rooms' own tasks do while a call of Rooms is suspended: the
\* running rooms of e.logs log what they receive, so that the vault knows
\* them, and the connections of those of e.stops end.
Running(r) == {n \in DOMAIN r.euph_rooms : r.euph_rooms[n] = "running"}
Events(r) == [logs : SUBSET (Running(r) \ r.db), stops : SUBSET Running(r)]
Happen(r, e) ==
    [r EXCEPT !.db = @ \cup e.logs,
              !.euph_rooms = [n \in DOMAIN @ |->
                                IF n \in e.stops THEN "stopped" ELSE @[n]]]

\* The vault lists its rooms (rooms_set), a happens while the answer is
\* awaited, then retain(|n, r| !r.stopped() || rooms_set.contains(n)) and
\* room.retain() for the rooms that stay.
stabilize_rooms(r, a) ==
    LET rooms_set == r.db
        s == Happen(r, a)
        keep == {n \in DOMAIN s.euph_rooms :
                    ~stopped(s.euph_rooms[n]) \/ n \in rooms_set}
    IN [s EXCEPT !.euph_rooms = [n \in keep |-> retain(s.euph_rooms[n])]]

\* The vault's rooms and the map's keys, sorted and without duplicates.
room_names(r) == Sorted(r.db \cup DOMAIN r.euph_rooms)

\* entry(name).or_insert_with(EuphRoom::new)
get_or_insert_room(m, name) ==
    [n \in DOMAIN m \cup {name} |-> IF n \in DOMAIN m THEN m[n] ELSE EuphRoom]

\* b happens before the vault lists its rooms for room_names, c while that
\* answer and then each room's status are awaited.
rooms_widget(r, b, c) ==
    LET s == Happen(r, b)
    IN Happen([s EXCEPT !.list = render(s.list, room_names(s))], c)

\* In ShowRoom c happens while the widget of the room shown is awaited.
widget(r, a, b, c) ==
    IF r.state.kind = "ShowRoom"
    THEN Happen([r EXCEPT !.euph_rooms = get_or_insert_room(@, r.state.name)], c)
    ELSE rooms_widget(stabilize_rooms(r, a), b, c)

\* What may happen at the suspension points of widget, one after the other.
Quietly == [logs |-> {}, stops |-> {}]
Suspensions(r) ==
    IF r.state.kind = "ShowRoom"
    THEN {<< Quietly, Quietly, c >> : c \in Events(r)}
    ELSE UNION { UNION { { << a, b, c >> :
                             c \in Events(Happen(stabilize_rooms(r, a), b)) } :
                         b \in Events(stabilize_rooms(r, a)) } :
                 a \in Events(r) }

\* What list_key_bindings lists: the heading it prints, "room" for the
\* bindings of the room shown, or "oops" for the text of its else branch.
list_key_bindings(r) ==
    IF r.state.kind = "ShowList" THEN "Rooms"
    ELSE IF r.state.kind = "ShowRoom"
         THEN IF r.state.name \in DOMAIN r.euph_rooms THEN "room" ELSE "oops"
    ELSE "Connect"

\* handle_key_event: the Rooms after the key and the value returned. In
\* ShowRoom the room is handed the key first and handled is its answer.
Handled(r, ret) == [rooms |-> r, ret |-> ret]
handle_key_event(r, key, handled) ==
    LET name == r.list.cursor
    IN IF r.state.kind = "ShowList" THEN
         CASE key = "Up" -> Handled([r EXCEPT !.list = list_move_cursor_up(@)], TRUE)
           [] key = "Down" ->
                Handled([r EXCEPT !.list = list_move_cursor_down(@)], TRUE)
           [] key = "Home" ->
                Handled([r EXCEPT !.list = list_move_cursor_to_top(@)], TRUE)
           [] key = "End" ->
                Handled([r EXCEPT !.list = list_move_cursor_to_bottom(@)], TRUE)
           [] key \in {"Ctrl+y", "Ctrl+e"} -> Handled(r, TRUE)
           [] key = "Enter" ->
                Handled(IF name # NoName THEN [r EXCEPT !.state = ShowRoom(name)]
                        ELSE r, TRUE)
           [] key = "c" ->
                Handled(IF name # NoName
                        THEN LET m == get_or_insert_room(r.euph_rooms, name)
                             IN [r EXCEPT !.euph_rooms =
                                    [m EXCEPT ![name] = connect(@)]]
                        ELSE r, TRUE)
           [] key = "C" -> Handled([r EXCEPT !.state = Connect(EditorState)], TRUE)
           [] key = "d" ->
                Handled(IF name # NoName
                        THEN LET m == get_or_insert_room(r.euph_rooms, name)
                             IN [r EXCEPT !.euph_rooms =
                                    [m EXCEPT ![name] = disconnect(@)]]
                        ELSE r, TRUE)
           [] key = "D" ->
                Handled(IF name # NoName
                        THEN [r EXCEPT
                                !.euph_rooms = [n \in DOMAIN @ \ {name} |-> @[n]],
                                !.db = @ \ {name}]
                        ELSE r, TRUE)
           [] OTHER -> Handled(r, FALSE)
       ELSE IF r.state.kind = "ShowRoom" THEN
         LET s == [r EXCEPT !.euph_rooms = get_or_insert_room(@, r.state.name)]
         IN IF handled THEN Handled(s, TRUE)
            ELSE IF key = "Esc" THEN Handled([s EXCEPT !.state = ShowList], TRUE)
            ELSE Handled(s, FALSE)
       ELSE
         LET ed == r.state.ed
             text == ed.text
         IN CASE key = "Esc" -> Handled([r EXCEPT !.state = ShowList], TRUE)
              [] key = "Enter" ->
                   Handled(IF text # << >>
                           THEN LET m == get_or_insert_room(r.euph_rooms, text)
                                IN [r EXCEPT !.euph_rooms =
                                       [m EXCEPT ![text] = connect(@)],
                                             !.state = ShowRoom(text)]
                           ELSE r, TRUE)
              [] key \in Letters ->
                   Handled([r EXCEPT !.state = Connect(insert_char(ed, key))], TRUE)
              [] key = "Left" ->
                   Handled([r EXCEPT !.state = Connect(move_cursor_left(ed))], TRUE)
              [] key = "Right" ->
                   Handled([r EXCEPT !.state = Connect(move_cursor_right(ed))], TRUE)
              [] key = "Backspace" ->
                   Handled([r EXCEPT !.state = Connect(backspace(ed))], TRUE)
              [] key = "Delete" ->
                   Handled([r EXCEPT !.state = Connect(delete(ed))], TRUE)
              [] OTHER -> Handled(r, FALSE)

InitRooms ==
    /\ store \in Forests(0)
    /\ folded = {}
    /\ cursor = Bottom
    /\ correction = "None"
    /\ scroll = 0
    /\ lastOp = "init"
    /\ before = cursor
    /\ result = [err |-> "Ok", reply |-> NoReply, fault |-> 0]
    /\ trail = << >>
    /\ vault = NewVault
    /\ boot = "none"
    /\ ui = "none"
    /\ task = "none"
    /\ \E db \in SUBSET RoomNames : rooms = NewRooms(db)
    /\ arrived = 0

RoomsVars == << store, ViewVars, vault, boot, ui, task, arrived >>

\* The UI draws: Rooms::widget, suspended while it awaits the vault and the
\* rooms, whose tasks run meanwhile.
Widget ==
    /\ \E e \in Suspensions(rooms) : rooms' = widget(rooms, e[1], e[2], e[3])
    /\ UNCHANGED RoomsVars

\* The UI lists the key bindings: Rooms::list_key_bindings.
ListKeyBindings ==
    /\ rooms' = [rooms EXCEPT !.bindings = list_key_bindings(rooms)]
    /\ UNCHANGED RoomsVars

\* A key is pressed: Rooms::handle_key_event. The editor is given the
\* letters of Typed, while the name stays within MaxNameLen.
HandleKeyEvent ==
    /\ \E key \in Keys, handled \in BOOLEAN :
          /\ rooms.state.kind = "Connect" /\ key \in Letters
                => key \in Typed /\ Len(rooms.state.ed.text) < MaxNameLen
          /\ rooms' = handle_key_event(rooms, key, handled).rooms
    /\ UNCHANGED RoomsVars

\* The connection of a running room ends (it failed, or the server closed).
RoomStops ==
    /\ \E n \in DOMAIN rooms.euph_rooms :
          /\ rooms.euph_rooms[n] = "running"
          /\ rooms' = [rooms EXCEPT !.euph_rooms[n] = "stopped"]
    /\ UNCHANGED RoomsVars

\* A running room logs what it receives: the vault now knows the room.
RoomLogs ==
    /\ \E n \in DOMAIN rooms.euph_rooms :
          /\ rooms.euph_rooms[n] = "running"
          /\ n \notin rooms.db
          /\ rooms' = [rooms EXCEPT !.db = @ \cup {n}]
    /\ UNCHANGED RoomsVars

NextRooms ==
    \/ Widget
    \/ ListKeyBindings
    \/ HandleKeyEvent
    \/ RoomStops
    \/ RoomLogs

SpecRooms == InitRooms /\ [][NextRooms]_vars

\* ------------------------------------------------------------------ claims
\* Vocabulary of the claims, defined on the store alone.
RECURSIVE ProperAncestors(_, _)
ProperAncestors(s, id) ==
    IF id \notin s.msgs \/ s.parent[id] = NoId THEN {}
    ELSE {s.parent[id]} \cup ProperAncestors(s, s.parent[id])

Depth(s, id) == Cardinality(ProperAncestors(s, id))
ChildrenOf(s, id) == {m \in s.msgs : s.parent[m] = id}
\* The siblings of id: the other children of its parent, the other roots
\* when id is a root.
SiblingsOf(s, id) == {m \in s.msgs \ {id} : s.parent[m] = s.parent[id]}
\* id lies inside a folded subtree.
Hidden(s, fold, id) == ProperAncestors(s, id) \cap fold # {}

\* The message reached from x by taking the last child again and again
\* while the message at hand is not folded and has children.
RECURSIVE DeepestLast(_, _, _)
DeepestLast(s, fold, x) ==
    IF x \in fold \/ ChildrenOf(s, x) = {} THEN x
    ELSE DeepestLast(s, fold, Max(ChildrenOf(s, x)))

\* The next sibling of m or else of its nearest ancestor that has one, as
\* a cursor; Bottom when there is none.
RECURSIVE NextAbove(_, _)
NextAbove(s, m) ==
    LET later == {x \in SiblingsOf(s, m) : x > m}
    IN IF later # {} THEN Msg(Min(later))
       ELSE IF s.parent[m] = NoId THEN Bottom
       ELSE NextAbove(s, s.parent[m])

PreorderSuccessor(s, fold, m) ==
    IF m \notin fold /\ ChildrenOf(s, m) # {}
    THEN Msg(Min(ChildrenOf(s, m)))
    ELSE NextAbove(s, m)

PreorderPredecessor(s, fold, m) ==
    LET earlier == {x \in SiblingsOf(s, m) : x < m}
    IN IF earlier # {} THEN Msg(DeepestLast(s, fold, Max(earlier)))
       ELSE IF s.parent[m] # NoId THEN Msg(s.parent[m])
       ELSE Msg(m)

\* The target of a normal reply to m: m when it has a later sibling under
\* its parent, else its parent, else (a root) m.
NormalTarget(s, m) ==
    IF s.parent[m] # NoId /\ \E x \in SiblingsOf(s, m) : x > m THEN m
    ELSE IF s.parent[m] # NoId THEN s.parent[m]
    ELSE m

\* The store with its chronological sequence filtered to the unseen
\* messages.
OnlyUnseen(s) == [s EXCEPT !.msgs = Unseen(s)]

\* The forest of the scenario: root A with children B, C (in that order),
\* B with the single child D.
ScenarioIds == << 1, 2, 3, 4 >>
MsgA == ScenarioIds[1]
MsgB == ScenarioIds[2]
MsgC == ScenarioIds[3]
MsgD == ScenarioIds[4]
IsScenario(s) ==
    /\ s.msgs = {MsgA, MsgB, MsgC, MsgD}
    /\ s.parent[MsgA] = NoId
    /\ s.parent[MsgB] = MsgA
    /\ s.parent[MsgC] = MsgA
    /\ s.parent[MsgD] = MsgB

ScenarioUpTrail == << Bottom, Msg(MsgC), Msg(MsgD), Msg(MsgB), Msg(MsgA), Msg(MsgA) >>

\* C1: on the scenario forest with nothing folded, the first five
\* move_cursor_up calls from Bottom leave the cursor at C, D, B, A and A;
\* with B folded, move_cursor_up from C leaves the cursor at B.
\* (The store receives no message while the calls are suspended.)
C1_ScenarioUp ==
    Quiet =>
        /\ (IsScenario(store) /\ lastOp = "move_cursor_up") =>
               /\ (folded = {} /\ trail[1] = Bottom) =>
                      \A i \in 1 .. Len(trail) :
                          i <= Len(ScenarioUpTrail) => trail[i] = ScenarioUpTrail[i]
               /\ (MsgB \in folded /\ trail[1] = Msg(MsgC)) => trail[2] = Msg(MsgB)

C1_Witness ==
    /\ Quiet
    /\ /\ IsScenario(store)
       /\ folded = {}
       /\ lastOp = "move_cursor_up"
       /\ trail = ScenarioUpTrail


\* C2 as claimed: from every cursor Msg(c), move_cursor_down followed at once
\* by move_cursor_up leaves the cursor at Msg(c) again.
\* (The store receives no message while the calls are suspended.)
C2_RoundTrip_AsClaimed ==
    Quiet =>
        /\ (lastOp = "move_cursor_up" /\ trail[1].kind = "Msg") => trail[3] = trail[1]

\* C2 (amended): the round trip returns to Msg(c) whenever c does not lie
\* inside a folded subtree (no proper ancestor of c is folded), also when
\* move_cursor_down crossed into the next root tree.
\* (The store receives no message while the calls are suspended.)
C2_RoundTrip ==
    Quiet =>
        /\ (/\ lastOp = "move_cursor_up"
            /\ trail[1].kind = "Msg"
            /\ ~Hidden(store, folded, trail[1].id)) => trail[3] = trail[1]

\* The round trip of a non-root message whose successor is the next root.
C2_Witness ==
    /\ Quiet
    /\ /\ lastOp = "move_cursor_up"
       /\ trail[1].kind = "Msg"
       /\ trail[1].id \in store.msgs
       /\ store.parent[trail[1].id] # NoId
       /\ trail[2].kind = "Msg"
       /\ RootOf(store, trail[2].id) # RootOf(store, trail[1].id)
       /\ trail[3] = trail[1]


\* C3: with X folded, a run of move_cursor_down or of move_cursor_up that
\* starts at Bottom or at a message that is no proper descendant of X never
\* puts the cursor on a proper descendant of X: neither its first call nor
\* any later one.
\* (The store receives no message while the calls are suspended.)
C3_FoldContainment ==
    Quiet =>
        /\ lastOp \in {"move_cursor_up", "move_cursor_down"} =>
               \A X \in folded :
                   (\/ trail[1].kind = "Bottom"
                    \/ /\ trail[1].kind = "Msg"
                       /\ X \notin ProperAncestors(store, trail[1].id)) =>
                       \A i \in 2 .. Len(trail) :
                           ~(/\ trail[i].kind = "Msg"
                             /\ X \in ProperAncestors(store, trail[i].id))

\* A run of move_cursor_down that started above a folded message with
\* children, reached it and went on to a later message.
C3_Witness ==
    /\ Quiet
    /\ /\ lastOp = "move_cursor_down"
       /\ \E X \in folded :
              /\ ChildrenOf(store, X) # {}
              /\ \E i \in 2 .. Len(trail) - 1 :
                     /\ trail[1].kind = "Msg"
                     /\ trail[i] = Msg(X)
                     /\ trail[i + 1].kind = "Msg"


\* C4: from Msg(m) with m at depth d, move_cursor_up_sibling and
\* move_cursor_down_sibling leave the cursor unchanged or on a message at
\* the same depth d.
\* (The store receives no message while the calls are suspended.)
C4_SiblingDepth ==
    Quiet =>
        /\ (/\ lastOp \in {"move_cursor_up_sibling", "move_cursor_down_sibling"}
            /\ before.kind = "Msg"
            /\ before.id \in store.msgs) =>
               \/ cursor = before
               \/ /\ cursor.kind = "Msg"
                  /\ cursor.id \in store.msgs
                  /\ Depth(store, cursor.id) = Depth(store, before.id)


\* C5: on a fixed store of n messages, a run of move_cursor_newer from the
\* oldest message visits the messages in strictly increasing chronological
\* order, each exactly once, is at Bottom after exactly n calls and stays
\* there.
\* (The store receives no message while the calls are suspended.)
C5_NewerRun ==
    Quiet =>
        /\ (/\ lastOp = "move_cursor_newer"
            /\ store.msgs # {}
            /\ trail[1] = Msg(Min(store.msgs))) =>
               LET n == Cardinality(store.msgs) IN
               /\ \A i \in 1 .. Len(trail) :
                      /\ i <= n => /\ trail[i].kind = "Msg"
                                   /\ trail[i].id \in store.msgs
                                   /\ i > 1 => trail[i].id > trail[i - 1].id
                      /\ i > n => trail[i] = Bottom
               /\ Len(trail) > n => {trail[i].id : i \in 1 .. n} = store.msgs

\* A run over a full store that has reached Bottom and stayed there.
C5_Witness ==
    /\ Quiet
    /\ /\ lastOp = "move_cursor_newer"
       /\ Cardinality(store.msgs) = MaxMsgs
       /\ trail[1] = Msg(Min(store.msgs))
       /\ Len(trail) = MaxMsgs + 2
       /\ trail[MaxMsgs + 1] = Bottom
       /\ trail[MaxMsgs + 2] = Bottom


\* C6: the store actor executes the units of work one at a time in the
\* order of their submission, whoever submitted them, so a read sees the
\* effect of every write submitted before it: an "unseen" query never
\* returns a message that an earlier "mark seen" marked, whether or not the
\* callers have taken their results.
C6_StoreOrdering ==
    \A i \in 1 .. Len(vault.log) :
        /\ vault.log[i].ticket = i
        /\ (vault.submitted[i].action.kind = "unseen" /\ vault.log[i].ok) =>
               \A t \in 1 .. i - 1 :
                   (/\ vault.submitted[t].action.kind = "mark_seen"
                    /\ vault.log[t].ok) =>
                       vault.submitted[t].action.arg \notin vault.log[i].res

\* Caller a marked two messages, caller b then asked for the unseen ones;
\* all three ran, the marked messages had been unseen and are not returned,
\* and a has not taken the result of its first write yet.
C6_Witness ==
    /\ Len(vault.log) = 3
    /\ vault.submitted[1] = [ticket |-> 1, caller |-> "a", action |-> MarkSeenAction(1)]
    /\ vault.submitted[2] = [ticket |-> 2, caller |-> "a", action |-> MarkSeenAction(2)]
    /\ vault.submitted[3] = [ticket |-> 3, caller |-> "b", action |-> UnseenQuery]
    /\ \A i \in 1 .. 3 : vault.log[i].ok
    /\ {1, 2} \subseteq store.msgs
    /\ vault.log[3].res = store.msgs \ {1, 2}
    /\ 1 \in vault.inbox


\* C7: a move_cursor_* operation one of whose store queries returned an
\* error returns that error, and the cursor is what it was before the call.
\* (The store receives no message while the calls are suspended.)
C7_FailedMoveKeepsCursor ==
    Quiet =>
        /\ lastOp # "init" =>
               /\ result.fault # 0 => result.err = "StoreFault"
               /\ result.err # "Ok" => cursor = before

\* move_cursor_down from a message with a parent walked up to the root,
\* obtained the next root's id, and the fetch of that root's tree failed.
C7_Witness ==
    /\ Quiet
    /\ /\ lastOp = "move_cursor_down"
       /\ result.fault = 4
       /\ result.err = "StoreFault"
       /\ before.kind = "Msg"
       /\ before.id \in store.msgs
       /\ store.parent[before.id] # NoId
       /\ \E r \in Roots(store) : r > RootOf(store, before.id)
       /\ cursor = before


\* C8: move_cursor_down from Msg(m) leaves the cursor on the pre-order
\* successor of m over the unfolded content: m's first child if m is not
\* folded and has one, else the next sibling (next root) of m or of its
\* nearest ancestor that has one, else Bottom.
\* (The store receives no message while the calls are suspended.)
C8_DownIsSuccessor ==
    Quiet =>
        /\ (/\ lastOp = "move_cursor_down"
            /\ before.kind = "Msg"
            /\ before.id \in store.msgs) =>
               cursor = PreorderSuccessor(store, folded, before.id)

\* From a message two levels down the walk went up to the root and on to
\* the next root.
C8_Witness ==
    /\ Quiet
    /\ /\ lastOp = "move_cursor_down"
       /\ before.kind = "Msg"
       /\ before.id \in store.msgs
       /\ Depth(store, before.id) = 2
       /\ cursor.kind = "Msg"
       /\ Depth(store, cursor.id) = 0
       /\ cursor.id # RootOf(store, before.id)

\* C9: move_cursor_up from Msg(m) leaves the cursor on the pre-order
\* predecessor of m over the unfolded content: the deepest last unfolded
\* descendant of m's previous sibling (previous root), else m's parent, else
\* m itself.
\* (The store receives no message while the calls are suspended.)
C9_UpIsPredecessor ==
    Quiet =>
        /\ (/\ lastOp = "move_cursor_up"
            /\ before.kind = "Msg"
            /\ before.id \in store.msgs) =>
               cursor = PreorderPredecessor(store, folded, before.id)

\* From a root the cursor went into the previous root tree and stopped at
\* a folded message that has children.
C9_Witness ==
    /\ Quiet
    /\ /\ lastOp = "move_cursor_up"
       /\ before.kind = "Msg"
       /\ before.id \in Roots(store)
       /\ cursor.kind = "Msg"
       /\ cursor.id \in folded
       /\ ChildrenOf(store, cursor.id) # {}
       /\ Depth(store, cursor.id) = 1
       /\ RootOf(store, cursor.id) # before.id

\* C10: move_cursor_up from Bottom and from Pseudo without a parent leave
\* the same cursor: the deepest last unfolded descendant of the last root,
\* or the cursor as it was when the store has no root.
\* (The store receives no message while the calls are suspended.)
C10_UpFromEnd ==
    Quiet =>
        /\ (/\ lastOp = "move_cursor_up"
            /\ \/ before.kind = "Bottom"
               \/ before.kind = "Pseudo" /\ before.parent = NoId) =>
               cursor = IF Roots(store) = {} THEN before
                        ELSE Msg(DeepestLast(store, folded, Max(Roots(store))))

\* From Pseudo without a parent the cursor went below the last root.
C10_Witness ==
    /\ Quiet
    /\ /\ lastOp = "move_cursor_up"
       /\ before.kind = "Pseudo"
       /\ before.parent = NoId
       /\ cursor.kind = "Msg"
       /\ Depth(store, cursor.id) >= 1
       /\ RootOf(store, cursor.id) = Max(Roots(store))


\* C11: parent_for_normal_reply with cursor Msg(m) returns Some(Some(t)):
\* t is m if m has a later sibling, else m's parent if it has one, else m.
\* (The store receives no message while the calls are suspended.)
C11_NormalReply ==
    Quiet =>
        /\ (/\ trail # << >>
            /\ cursor.kind = "Msg"
            /\ cursor.id \in store.msgs
            /\ trail[1].fault = 0) =>
               /\ trail[1].err = "Ok"
               /\ trail[1].reply = SomeSome(NormalTarget(store, cursor.id))

\* The reply to a last child that has children of its own goes to its parent.
C11_Witness ==
    /\ Quiet
    /\ /\ trail # << >>
       /\ cursor.kind = "Msg"
       /\ cursor.id \in store.msgs
       /\ ChildrenOf(store, cursor.id) # {}
       /\ store.parent[cursor.id] # NoId
       /\ trail[1].reply = SomeSome(store.parent[cursor.id])

\* C12 as stated: for every cursor Msg(m) the two reply queries return
\* different targets, one m and the other m's parent.
\* (The store receives no message while the calls are suspended.)
C12_Opposite_AsClaimed ==
    Quiet =>
        /\ (/\ Len(trail) = 2
            /\ cursor.kind = "Msg"
            /\ cursor.id \in store.msgs
            /\ trail[1].fault = 0
            /\ trail[2].fault = 0) =>
               /\ trail[1].reply # trail[2].reply
               /\ {trail[1].reply, trail[2].reply}
                      = {SomeSome(cursor.id), SomeSome(store.parent[cursor.id])}

\* C12: for every cursor Msg(m) where m has a parent the two reply queries
\* return different targets, one m and the other m's parent; where m is a
\* root both return m.
\* (The store receives no message while the calls are suspended.)
C12_Opposite ==
    Quiet =>
        /\ (/\ Len(trail) = 2
            /\ cursor.kind = "Msg"
            /\ cursor.id \in store.msgs
            /\ trail[1].fault = 0
            /\ trail[2].fault = 0) =>
               IF store.parent[cursor.id] # NoId
               THEN /\ trail[1].reply # trail[2].reply
                    /\ {trail[1].reply, trail[2].reply}
                           = {SomeSome(cursor.id), SomeSome(store.parent[cursor.id])}
               ELSE /\ trail[1].reply = SomeSome(cursor.id)
                    /\ trail[2].reply = SomeSome(cursor.id)

\* Normal reply to the message itself, alternate reply to its parent.
C12_Witness ==
    /\ Quiet
    /\ /\ Len(trail) = 2
       /\ cursor.kind = "Msg"
       /\ cursor.id \in store.msgs
       /\ store.parent[cursor.id] # NoId
       /\ trail[1].reply = SomeSome(cursor.id)
       /\ trail[2].reply = SomeSome(store.parent[cursor.id])

\* C13: with cursor Bottom both reply queries return Some(None) and issue
\* no store query (no failing store can make them fail); with an Editor or
\* Pseudo cursor, whatever its parent and coming_from, both return None.
\* (The store receives no message while the calls are suspended.)
C13_ReplyFromEnds ==
    Quiet =>
        /\ \A i \in 1 .. Len(trail) :
               /\ cursor.kind = "Bottom" =>
                      trail[i] = [err |-> "Ok", reply |-> SomeNone, fault |-> 0]
               /\ cursor.kind \in {"Editor", "Pseudo"} =>
                      trail[i] = [err |-> "Ok", reply |-> NoReply, fault |-> 0]

\* Both queries answered None for a Pseudo cursor that has a parent and a
\* coming_from.
C13_Witness ==
    /\ Quiet
    /\ /\ Len(trail) = 2
       /\ cursor.kind = "Pseudo"
       /\ cursor.parent \in store.msgs
       /\ cursor.coming_from # NoId
       /\ trail[1].reply = NoReply
       /\ trail[2].reply = NoReply


\* C14 as stated: move_cursor_to_parent and move_cursor_to_root called with
\* a Pseudo or an Editor cursor that has a parent p leave the cursor on a
\* message derived from p: Msg(p), and Msg(root of p).
\* (The store receives no message while the calls are suspended.)
C14_VirtualToParent_AsClaimed ==
    Quiet =>
        /\ (/\ lastOp \in {"move_cursor_to_parent", "move_cursor_to_root"}
            /\ before.kind \in {"Pseudo", "Editor"}
            /\ before.parent \in store.msgs) =>
               cursor = IF lastOp = "move_cursor_to_parent" THEN Msg(before.parent)
                        ELSE Msg(RootOf(store, before.parent))

\* C14: called with a Pseudo cursor that has a parent p, move_cursor_to_parent
\* leaves the cursor on Msg(p) and move_cursor_to_root on Msg(root of p);
\* called with an Editor cursor both leave the cursor as it is.
\* (The store receives no message while the calls are suspended.)
C14_VirtualToParent ==
    Quiet =>
        /\ lastOp \in {"move_cursor_to_parent", "move_cursor_to_root"} =>
               /\ (before.kind = "Pseudo" /\ before.parent \in store.msgs) =>
                      cursor = IF lastOp = "move_cursor_to_parent" THEN Msg(before.parent)
                               ELSE Msg(RootOf(store, before.parent))
               /\ before.kind = "Editor" => cursor = before

\* move_cursor_to_root took a Pseudo cursor under a reply to the root of
\* that reply.
C14_Witness ==
    /\ Quiet
    /\ /\ lastOp = "move_cursor_to_root"
       /\ before.kind = "Pseudo"
       /\ before.parent \in store.msgs
       /\ store.parent[before.parent] # NoId
       /\ cursor = Msg(RootOf(store, before.parent))

\* C15: move_cursor_to_root from Msg(m) leaves the cursor on the root of
\* m's tree, whatever is folded, and a further call leaves it there;
\* repeating move_cursor_to_parent from Msg(m) goes up one parent a call,
\* reaches that same root and stays on it.
\* (The store receives no message while the calls are suspended.)
C15_RootIsFixpoint ==
    Quiet =>
        /\ (/\ lastOp \in {"move_cursor_to_root", "move_cursor_to_parent"}
            /\ trail[1].kind = "Msg"
            /\ trail[1].id \in store.msgs) =>
               \A i \in 2 .. Len(trail) :
                   IF lastOp = "move_cursor_to_root"
                   THEN trail[i] = Msg(RootOf(store, trail[1].id))
                   ELSE /\ trail[i].kind = "Msg"
                        /\ trail[i].id = IF store.parent[trail[i - 1].id] = NoId
                                         THEN trail[i - 1].id
                                         ELSE store.parent[trail[i - 1].id]
                        /\ i > Depth(store, trail[1].id) =>
                               trail[i] = Msg(RootOf(store, trail[1].id))

\* From a message two levels down, inside a folded subtree,
\* move_cursor_to_root went to the root and stayed there.
C15_Witness ==
    /\ Quiet
    /\ /\ lastOp = "move_cursor_to_root"
       /\ Len(trail) >= 3
       /\ trail[1].kind = "Msg"
       /\ trail[1].id \in store.msgs
       /\ Depth(store, trail[1].id) = 2
       /\ Hidden(store, folded, trail[1].id)
       /\ trail[2] = Msg(RootOf(store, trail[1].id))
       /\ trail[3] = trail[2]


\* C16 as stated: on a store that holds messages, move_cursor_older from
\* Bottom, Pseudo and Editor alike leaves the cursor on the newest message;
\* move_cursor_newer from the newest message leaves it at Bottom;
\* move_cursor_older from the oldest message leaves it unchanged.
\* (The store receives no message while the calls are suspended.)
C16_ChronoEdges_AsClaimed ==
    Quiet =>
        /\ (result.err = "Ok" /\ store.msgs # {}) =>
               /\ (/\ lastOp = "move_cursor_older"
                   /\ before.kind \in {"Bottom", "Pseudo", "Editor"}) =>
                      cursor = Msg(Max(store.msgs))
               /\ (lastOp = "move_cursor_newer" /\ before = Msg(Max(store.msgs))) =>
                      cursor = Bottom
               /\ (lastOp = "move_cursor_older" /\ before = Msg(Min(store.msgs))) =>
                      cursor = before

\* C16: on a store that holds messages, move_cursor_older from Bottom and
\* from a Pseudo cursor leaves the cursor on the newest message and from an
\* Editor cursor leaves it unchanged; move_cursor_newer from the newest
\* message leaves it at Bottom; move_cursor_older from the oldest message
\* leaves it unchanged.
\* (The store receives no message while the calls are suspended.)
C16_ChronoEdges ==
    Quiet =>
        /\ (result.err = "Ok" /\ store.msgs # {}) =>
               /\ (lastOp = "move_cursor_older" /\ before.kind \in {"Bottom", "Pseudo"}) =>
                      cursor = Msg(Max(store.msgs))
               /\ (lastOp = "move_cursor_older" /\ before.kind = "Editor") =>
                      cursor = before
               /\ (lastOp = "move_cursor_newer" /\ before = Msg(Max(store.msgs))) =>
                      cursor = Bottom
               /\ (lastOp = "move_cursor_older" /\ before = Msg(Min(store.msgs))) =>
                      cursor = before

\* move_cursor_older took a Pseudo cursor under the first message to the
\* newest message of a full store.
C16_Witness ==
    /\ Quiet
    /\ /\ lastOp = "move_cursor_older"
       /\ result.err = "Ok"
       /\ before.kind = "Pseudo"
       /\ before.parent = 1
       /\ Cardinality(store.msgs) = MaxFaultMsgs
       /\ cursor = Msg(MaxFaultMsgs)


\* C17: for every cursor and every marking, move_cursor_older_unseen and
\* move_cursor_newer_unseen leave the cursor that move_cursor_older and
\* move_cursor_newer leave on the store filtered to the unseen messages;
\* they never move onto a seen message, and move_cursor_newer_unseen from a
\* message with no newer unseen message leaves Bottom.
\* (The store receives no message while the calls are suspended.)
C17_UnseenIsFilteredChrono ==
    Quiet =>
        /\ LET was == [View EXCEPT !.cursor = before, !.correction = "None"]
               only == World(OnlyUnseen(store), 0)
           IN /\ lastOp = "move_cursor_older_unseen" =>
                     /\ result.err = move_cursor_older(only, was).err
                     /\ cursor = move_cursor_older(only, was).cursor
              /\ lastOp = "move_cursor_newer_unseen" =>
                     /\ result.err = move_cursor_newer(only, was).err
                     /\ cursor = move_cursor_newer(only, was).cursor
                     /\ (/\ before.kind = "Msg"
                         /\ \A m \in Unseen(store) : m <= before.id) => cursor = Bottom
              /\ (/\ lastOp \in {"move_cursor_older_unseen", "move_cursor_newer_unseen"}
                  /\ cursor # before
                  /\ cursor.kind = "Msg") => cursor.id \in Unseen(store)

\* From a seen message move_cursor_older_unseen skipped a seen message and
\* reached an unseen one.
C17_Witness ==
    /\ Quiet
    /\ /\ lastOp = "move_cursor_older_unseen"
       /\ before.kind = "Msg"
       /\ before.id \in store.seen
       /\ cursor.kind = "Msg"
       /\ cursor.id \in Unseen(store)
       /\ \E m \in store.seen : cursor.id < m /\ m < before.id


\* C18: after any sequence of public operations the pending correction is
\* the hint of the most recent one (that returned Ok): MakeCursorVisible
\* for every move_cursor_* operation, MoveCursorToVisibleArea for scroll_up
\* and scroll_down, CenterCursor for center_cursor.
\* (The store receives no message while the calls are suspended.)
C18_LastHintWins ==
    Quiet =>
        /\ (lastOp # "init" /\ result.err = "Ok") =>
               correction = IF lastOp \in {"scroll_up", "scroll_down"}
                            THEN "MoveCursorToVisibleArea"
                            ELSE IF lastOp = "center_cursor" THEN "CenterCursor"
                            ELSE "MakeCursorVisible"


\* C19: when the actor releases the connection after close, every unit of
\* work ever submitted has been executed, in order, with its result handed
\* out, and nothing is left queued; once the connection is released no unit
\* is executed or accepted.
C19_ShutdownDrains ==
    [][/\ ~vault'.open =>
              /\ ~vault'.running
              /\ vault'.queue = << >>
              /\ Len(vault'.log) = Len(vault'.submitted)
              /\ \A t \in 1 .. Len(vault'.submitted) : vault'.log[t].ticket = t
       /\ ~vault.open =>
              /\ ~vault'.open
              /\ vault'.log = vault.log
              /\ vault'.submitted = vault.submitted]_vars

\* The connection is released, every unit of a full behaviour has run, and
\* no caller has taken a result yet.
C19_Witness ==
    /\ ~vault.open
    /\ Len(vault.submitted) = MaxUnits
    /\ Len(vault.log) = MaxUnits
    /\ vault.inbox = 1 .. MaxUnits

\* The messages marked seen by the writes that ran before unit i and did
\* not fail.
SeenBefore(vl, s, i) ==
    UNION {{m \in s.msgs : m <= vl.submitted[t].action.arg} :
             t \in {t \in 1 .. i - 1 : /\ vl.submitted[t].action.kind = "mark_seen"
                                       /\ vl.log[t].ok}}

\* C20: the step in which a unit of work fails hands the error to that
\* unit alone, leaves the database, the rest of the queue and the actor as
\* they were, and the actor goes on accepting work; all units run in
\* order and each query that succeeds yields its own result, the one the
\* successful writes before it determine.
C20_FailureIsolation ==
    [][/\ Len(vault'.log) > Len(vault.log) /\ ~vault'.log[Len(vault'.log)].ok =>
              /\ store' = store
              /\ vault'.queue = Tail(vault.queue)
              /\ vault'.inbox = vault.inbox \cup {Head(vault.queue).ticket}
              /\ vault'.running = vault.running
              /\ vault'.open = vault.open
       /\ \A i \in 1 .. Len(vault'.log) :
              /\ vault'.log[i].ticket = i
              /\ (/\ vault'.log[i].ok
                  /\ vault'.submitted[i].action.kind = "unseen") =>
                     vault'.log[i].res = store'.msgs \ SeenBefore(vault', store', i)]_vars

\* The first write failed; the write and the query behind it ran, and the
\* query reports the message that only the failed write would have marked.
C20_Witness ==
    /\ Len(vault.log) = 3
    /\ vault.submitted[1].action = MarkSeenAction(2)
    /\ vault.submitted[2].action = MarkSeenAction(1)
    /\ vault.submitted[3].action = UnseenQuery
    /\ vault.submitted[1].caller # vault.submitted[3].caller
    /\ ~vault.log[1].ok
    /\ vault.log[2].ok
    /\ vault.log[3].ok
    /\ vault.log[3].res = {2}
    /\ vault.running


\* C21: over any sequence of launches the database holds each migration up
\* to its version exactly once and in list order; a launch commits exactly
\* the migrations after the version it found, in order, so none when the
\* database is already at the latest version; a launch that returns a
\* Vault leaves the database at the latest version.
C21_MigrationIdempotence ==
    /\ boot.db.schema = SchemaAt(boot.db.version)
    /\ boot.applied = [i \in 1 .. boot.db.version - boot.from |-> boot.from + i]
    /\ boot.handle # NoVault => boot.db.version = MaxMigrations

\* A second launch on the file the first one migrated: it applied nothing
\* and returned a Vault.
C21_Witness ==
    /\ boot.launches >= 2
    /\ ~boot.ephemeral
    /\ boot.from = MaxMigrations
    /\ boot.applied = << >>
    /\ boot.handle # NoVault
    /\ boot.db = [version |-> MaxMigrations, schema |-> SchemaAt(MaxMigrations)]

\* C22: work is executed, and a Vault exists, only once every migration
\* is committed and the preparation has run, and work is executed only by
\* the actor of a Vault that the launch returned, whether or not its stop
\* has been requested since; the committed database never holds part of a
\* migration, and a launch that returned an error left no Vault.
C22_StartupProtocol ==
    /\ boot.ran > 0 =>
          /\ boot.handle # NoVault
          /\ boot.ran = Len(boot.handle.tokio_vault.log)
          /\ boot.db.version = MaxMigrations
          /\ boot.prepared
          /\ boot.tx = << >>
    /\ boot.handle # NoVault =>
          /\ boot.db.version = MaxMigrations
          /\ boot.prepared
          /\ boot.tx = << >>
          /\ boot.err = "Ok"
    /\ Len(boot.db.schema) = MaxStmts * boot.db.version
    /\ boot.err # "Ok" => boot.handle = NoVault /\ boot.pc = "idle" /\ boot.ran = 0
    /\ boot.tx # << >> => boot.pc = "migrating"

\* A launch whose second migration failed: the first stays committed, whole,
\* and there is no Vault.
C22_Witness ==
    /\ boot.err = "MigrationFault"
    /\ boot.from = 0
    /\ boot.applied = << 1 >>
    /\ boot.db = [version |-> 1, schema |-> SchemaAt(1)]
    /\ boot.handle = NoVault
    /\ boot.ran = 0


\* C23: a gc unit is executed alone on the connection, when every unit
\* submitted before it has completed and none submitted after it has
\* started; and gc can be submitted whenever the vault is live.
C23_GcInSlot ==
    /\ \A u \in vault.current :
          u.action = GcAction =>
              /\ vault.current = {u}
              /\ Len(vault.log) = u.ticket - 1
              /\ \A i \in 1 .. Len(vault.log) : vault.log[i].ticket = i
              /\ vault.queue = [i \in 1 .. Len(vault.submitted) - u.ticket |->
                                   vault.submitted[u.ticket + i]]
    /\ \A i \in 1 .. Len(vault.log) :
          vault.submitted[vault.log[i].ticket].action = GcAction =>
              vault.log[i].ticket = i
    /\ Live => ENABLED CallGc

\* gc is being executed: the write submitted before it is done, the query
\* submitted after it waits.
C23_Witness ==
    /\ Len(vault.submitted) = 3
    /\ vault.submitted[1].action.kind = "mark_seen"
    /\ vault.submitted[2].action = GcAction
    /\ vault.submitted[3].action = UnseenQuery
    /\ vault.current = {vault.submitted[2]}
    /\ Len(vault.log) = 1
    /\ vault.queue = << vault.submitted[3] >>


\* C24: no lookup made after an awaited store query is answered from a
\* Tree that was fetched before that query and that a message arriving in
\* the meantime has made out of date.
C24_FreshLookups == ~task.outdated


\* The movement op has no target from message m: no sibling on its side,
\* no parent, no older (unseen) message, no message before it.
NoTarget(op, s, fold, m) ==
    \/ op = "move_cursor_up" /\ PreorderPredecessor(s, fold, m) = Msg(m)
    \/ op = "move_cursor_up_sibling" /\ {x \in SiblingsOf(s, m) : x < m} = {}
    \/ op = "move_cursor_down_sibling" /\ {x \in SiblingsOf(s, m) : x > m} = {}
    \/ op \in {"move_cursor_to_parent", "move_cursor_to_root"} /\ s.parent[m] = NoId
    \/ op = "move_cursor_older" /\ {x \in s.msgs : x < m} = {}
    \/ op = "move_cursor_older_unseen" /\ {x \in Unseen(s) : x < m} = {}

\* C25: a movement from a message that has no target leaves the cursor
\* where it is; the cursor becomes Bottom only by move_cursor_down from a
\* message without successor and by move_cursor_newer (_unseen) from a
\* message with no newer (unseen) message.
\* (The store receives no message while the call is suspended.)
C25_NoTargetNoMove ==
    [][(/\ lastOp' # lastOp
        /\ arrived' = arrived
        /\ cursor.kind = "Msg"
        /\ cursor.id \in store.msgs
        /\ result'.err = "Ok") =>
           /\ NoTarget(lastOp', store, folded, cursor.id) => cursor' = cursor
           /\ cursor'.kind \in {"Msg", "Bottom"}
           /\ cursor' = Bottom =>
                 \/ /\ lastOp' = "move_cursor_down"
                    /\ PreorderSuccessor(store, folded, cursor.id) = Bottom
                 \/ /\ lastOp' = "move_cursor_newer"
                    /\ {x \in store.msgs : x > cursor.id} = {}
                 \/ /\ lastOp' = "move_cursor_newer_unseen"
                    /\ {x \in Unseen(store) : x > cursor.id} = {}]_vars


\* C26: from Pseudo with parent p, move_cursor_up_sibling leaves Msg(last
\* child of p) when p has a child, whether p is folded or not, and the
\* cursor as it was when p has none; move_cursor_down_sibling leaves the
\* cursor as it was.
\* (The store receives no message while the calls are suspended.)
C26_PseudoSiblings ==
    Quiet =>
        /\ (/\ before.kind = "Pseudo"
            /\ before.parent \in store.msgs
            /\ result.err = "Ok") =>
               /\ lastOp = "move_cursor_up_sibling" =>
                     cursor = IF ChildrenOf(store, before.parent) # {}
                              THEN Msg(Max(ChildrenOf(store, before.parent)))
                              ELSE before
               /\ lastOp = "move_cursor_down_sibling" => cursor = before

\* From a Pseudo cursor under a folded parent with two children the
\* cursor went to the second.
C26_Witness ==
    /\ Quiet
    /\ /\ lastOp = "move_cursor_up_sibling"
       /\ before.kind = "Pseudo"
       /\ before.parent \in folded
       /\ Cardinality(ChildrenOf(store, before.parent)) = 2
       /\ cursor = Msg(Max(ChildrenOf(store, before.parent)))


\* C27: when move_cursor_up, move_cursor_down or a sibling step takes the
\* cursor from a message to a message of another root tree, that tree is
\* the one just before (up) or just after (down) in the root sequence; for
\* move_cursor_up and the sibling steps the message left is a root, and a
\* sibling step arrives on the adjacent root itself.
\* (The store receives no message while the calls are suspended.)
C27_AdjacentCrossing ==
    Quiet =>
        /\ (/\ lastOp \in {"move_cursor_up", "move_cursor_down",
                           "move_cursor_up_sibling", "move_cursor_down_sibling"}
            /\ result.err = "Ok"
            /\ before.kind = "Msg"
            /\ before.id \in store.msgs
            /\ cursor.kind = "Msg"
            /\ cursor.id \in store.msgs
            /\ RootOf(store, cursor.id) # RootOf(store, before.id)) =>
               LET a == RootOf(store, before.id)
                   b == RootOf(store, cursor.id)
               IN /\ lastOp \in {"move_cursor_up", "move_cursor_up_sibling"} =>
                         /\ b < a
                         /\ \A r \in Roots(store) : ~(b < r /\ r < a)
                  /\ lastOp \in {"move_cursor_down", "move_cursor_down_sibling"} =>
                         /\ a < b
                         /\ \A r \in Roots(store) : ~(a < r /\ r < b)
                  /\ lastOp # "move_cursor_down" => store.parent[before.id] = NoId
                  /\ lastOp \in {"move_cursor_up_sibling", "move_cursor_down_sibling"} =>
                         cursor.id = b

\* move_cursor_down left the last message of the first of three root trees,
\* a reply, for the second root.
C27_Witness ==
    /\ Quiet
    /\ /\ lastOp = "move_cursor_down"
       /\ Cardinality(Roots(store)) = 3
       /\ before.kind = "Msg"
       /\ before.id \in store.msgs
       /\ store.parent[before.id] = Min(Roots(store))
       /\ cursor.kind = "Msg"
       /\ cursor.id \in Roots(store) \ {Min(Roots(store)), Max(Roots(store))}


\* C28: from Pseudo with parent p, move_cursor_up leaves Msg(d), d the
\* deepest last unfolded descendant of p (p itself when p is folded or has
\* no child); move_cursor_down leaves the next sibling of p or of its
\* nearest ancestor that has one (the next root at the top level), Bottom
\* if there is none, and never a message of the subtree of p.
\* (The store receives no message while the calls are suspended.)
C28_PseudoAsLastLeaf ==
    Quiet =>
        /\ (/\ before.kind = "Pseudo"
            /\ before.parent \in store.msgs
            /\ result.err = "Ok") =>
               /\ lastOp = "move_cursor_up" =>
                     cursor = Msg(DeepestLast(store, folded, before.parent))
               /\ lastOp = "move_cursor_down" =>
                     /\ cursor = NextAbove(store, before.parent)
                     /\ cursor.kind = "Msg" =>
                           /\ cursor.id # before.parent
                           /\ before.parent \notin ProperAncestors(store, cursor.id)

\* From a Pseudo cursor under an unfolded reply that has a reply of its
\* own, move_cursor_down left both behind for the next root.
C28_Witness ==
    /\ Quiet
    /\ /\ lastOp = "move_cursor_down"
       /\ before.kind = "Pseudo"
       /\ before.parent \in store.msgs \ folded
       /\ store.parent[before.parent] # NoId
       /\ ChildrenOf(store, before.parent) # {}
       /\ cursor.kind = "Msg"
       /\ cursor.id \in Roots(store)


\* C29: run never waits on run_main alone after the polling task has
\* stopped: once select! has seen the task's end, run has completed.
C29_PollEndStopsRun == ~(ui.run = "awaited" /\ ui.join = "disabled")

\* C30: once run_main has exited or run is no longer awaited, the polling
\* task eventually stops; it stops at the first head of its loop at which
\* the upgrade fails, and a stopped task sends nothing.
C30_PollingStops ==
    /\ [](ui.main = "exited" => <>(ui.poll = "stopped"))
    /\ [][/\ (ui.poll = "upgrade" /\ ~ui.strong /\ ui'.poll # ui.poll) =>
                ui'.poll = "stopped"
          /\ ui.poll = "stopped" =>
                /\ ui'.poll = "stopped"
                /\ ui'.sent = ui.sent
                /\ ui'.out = ui.out]_vars

\* run returned Ok on the key Q that the polling task had sent; the task,
\* at the head of its loop, failed to upgrade and returned Ok.
C30_Witness ==
    /\ ui.run = "done"
    /\ ui.res = "Ok"
    /\ ui.sent > 0
    /\ ui.poll = "stopped"
    /\ ui.out = "Ok"
    /\ ui.join = "pending"


\* C31: in the room list, whenever the state is ShowRoom(name) the map
\* euph_rooms holds an entry for name, whatever sequence of
\* handle_key_event, widget and list_key_bindings calls led there, so
\* list_key_bindings never lists the text of its else branch.
C31_ShownRoomIsOpen ==
    /\ rooms.state.kind = "ShowRoom" => rooms.state.name \in DOMAIN rooms.euph_rooms
    /\ rooms.bindings # "oops"


\* The operations that scroll the view and leave its cursor alone.
ScrollOps == {"scroll_up", "scroll_down", "center_cursor"}

\* C32: a move_cursor_* operation or a parent_for_*_reply query leaves the
\* fold set, the scroll offset and the store as they were; scroll_up,
\* scroll_down and center_cursor leave the cursor and the fold set as they
\* were; and scroll_down(n) called after a scroll_up(n) that returned, in
\* the same build, returns and gives back the scroll offset scroll_up(n)
\* was called with, also when the offset wrapped around the ends of i32.
\* (What reaches the store while a call is suspended is not that call's
\* doing: the store is compared over the calls no message arrived during.)
C32_ViewFrame ==
    [][/\ lastOp' \notin ScrollOps =>
             /\ folded' = folded /\ scroll' = scroll
             /\ arrived' = arrived => store' = store
       /\ lastOp' \in ScrollOps => cursor' = cursor /\ folded' = folded
       /\ (lastOp' = "scroll_up" /\ result'.err = "Ok") =>
             \E n \in Amounts :
                /\ scroll' = wrapping_add(scroll, n)
                /\ \A checks \in BOOLEAN :
                      (checks => ~add_overflows(scroll, n)) =>
                          LET back == scroll_down(View', n, checks)
                          IN back.err = "Ok" /\ back.scroll = scroll]_vars

\* scroll_up has moved the offset of a view with a folded message and a
\* cursor on a message.
C32_Witness ==
    /\ Quiet
    /\ /\ lastOp = "scroll_up"
       /\ scroll > 0
       /\ folded # {}
       /\ cursor.kind = "Msg"


\* A run of one operation called again and again: the cursor it started
\* from lies in the forest, and it has made at least as many calls as the
\* forest has messages.
StartsInForest ==
    LET c == trail[1]
    IN /\ c.kind = "Msg" => c.id \in store.msgs
       /\ c.kind \in {"Editor", "Pseudo"} => c.parent \in {NoId} \cup store.msgs
RunIsLong == Len(trail) > Cardinality(store.msgs)
NoMsgTwice ==
    \A i, j \in 1 .. Len(trail) :
        (i < j /\ trail[i].kind = "Msg" /\ trail[j].kind = "Msg")
            => trail[i].id # trail[j].id
StaysAt(c) ==
    \A i \in 1 .. Len(trail) - 1 : trail[i] = c => trail[i + 1] = c
DownRunEnds ==
    (lastOp = "move_cursor_down" /\ trail[1].kind = "Msg" /\ StartsInForest) =>
        /\ NoMsgTwice
        /\ StaysAt(Bottom)
        /\ RunIsLong => cursor = Bottom
UpRunEnds ==
    /\ StaysAt(Msg(first_root_id(store).val))
    /\ RunIsLong => cursor = Msg(first_root_id(store).val)

\* C33: on any forest with at least one message and any fold set, repeated
\* move_cursor_down from any Msg cursor visits no message twice and is at
\* Bottom, for good, after at most as many calls as there are messages;
\* repeated move_cursor_up from any cursor but an Editor is at Msg(first
\* root), for good, after at most as many calls as there are messages.
\* (The store receives no message while the calls are suspended.)
C33_RunsEnd ==
    Quiet =>
        /\ /\ DownRunEnds
           /\ (/\ lastOp = "move_cursor_up"
               /\ StartsInForest
               /\ store.msgs # {}
               /\ trail[1].kind # "Editor") => UpRunEnds

\* C33 as stated: the run of move_cursor_up may start from any cursor, an
\* Editor included.
\* (The store receives no message while the calls are suspended.)
C33_RunsEnd_AsClaimed ==
    Quiet =>
        /\ /\ DownRunEnds
           /\ (lastOp = "move_cursor_up" /\ StartsInForest /\ store.msgs # {})
                 => UpRunEnds

\* A run of move_cursor_down from a folded message with a reply has passed
\* two more messages and reached Bottom; or a run of move_cursor_up from
\* Bottom has come to rest on the first root of a forest of MaxMsgs.
C33_Witness ==
    /\ Quiet
    /\ \/ /\ lastOp = "move_cursor_down"
          /\ trail[1].kind = "Msg"
          /\ trail[1].id \in folded
          /\ ChildrenOf(store, trail[1].id) # {}
          /\ Len(trail) = 4
          /\ trail[3].kind = "Msg"
          /\ cursor = Bottom
       \/ /\ lastOp = "move_cursor_up"
          /\ trail[1] = Bottom
          /\ Cardinality(store.msgs) = MaxMsgs
          /\ Len(trail) = MaxMsgs + 2
          /\ trail[MaxMsgs] # cursor
          /\ cursor = Msg(first_root_id(store).val)

=============================================================================
